---- MODULE Spec2Model ----
(***************************************************************************)
(* A model of bluez-async's signal-to-event decoder (src/bluez-async/src/  *)
(* events.rs).  The transport delivers D-Bus messages one at a time; each  *)
(* is handed to BluetoothEvent::message_to_events, which returns a list of *)
(* BluetoothEvent values or panics.  The other operations of the crate     *)
(* (filter construction, identifiers, flag parsing) are pure functions;    *)
(* each has a specification of its own whose initial states draw the       *)
(* arguments of one call and whose action performs the call.               *)
(*                                                                         *)
(* Rust's Option<T> is modelled as a sequence of length 0 (None) or 1      *)
(* (Some(x)).  An object path is the sequence of its segments, so that     *)
(* "/org/bluez/hci0" is <<"org", "bluez", "hci0">> and "/" is <<>>.         *)
(* A HashMap whose iteration order is unspecified (a property bag) is a    *)
(* sequence of <<key, value>> entries with pairwise distinct keys: the     *)
(* order of the sequence is the order an iteration would visit.            *)
(***************************************************************************)
EXTENDS Integers, Sequences, FiniteSets, TLC

VARIABLES
    message,    \* Option<Message>: the message last handed to the decoder
    pc,         \* "idle" | "received" | "returned" | "panicked"
    result,     \* Vec<BluetoothEvent> returned for `message` (<<>> before)
    delivered,  \* every message decoded so far, in delivery order
    emitted,    \* the list returned for each of them, in the same order
    stream,     \* the caller's event stream: all events, in order
    call,       \* a call of one of the other operations: its name and arguments
    outcome     \* what that call did: pending, a value, an error or a panic

vars == <<message, pc, result, delivered, emitted, stream, call, outcome>>

\* No call of the other operations is modelled while the decoder runs.
NoCall == [op |-> "none"]
NoOutcome == [status |-> "none"]

----------------------------------------------------------------------------
(* Bounds of the model.                                                    *)

\* The largest number of entries in a changed-property bag.
MaxBag == 2
\* The largest number of messages delivered in one run of SpecStream.
MaxDelivered == 3

----------------------------------------------------------------------------
(* Option<T>.                                                              *)

None == <<>>
Some(x) == <<x>>
IsSome(o) == Len(o) = 1
Unwrap(o) == o[1]

----------------------------------------------------------------------------
(* Names.                                                                  *)

ORG_BLUEZ_ADAPTER1_NAME == "org.bluez.Adapter1"
ORG_BLUEZ_DEVICE1_NAME == "org.bluez.Device1"
ORG_BLUEZ_GATT_CHARACTERISTIC1_NAME == "org.bluez.GattCharacteristic1"
\* An interface of BlueZ the decoder has no arm for.
ORG_BLUEZ_BATTERY1_NAME == "org.bluez.Battery1"

PROPERTIES_INTERFACE == "org.freedesktop.DBus.Properties"
PROPERTIES_CHANGED == "PropertiesChanged"
OBJECT_MANAGER_INTERFACE == "org.freedesktop.DBus.ObjectManager"
INTERFACES_ADDED == "InterfacesAdded"

RootPath == <<>>
AdapterPath == <<"org", "bluez", "hci0">>
DevicePath == <<"org", "bluez", "hci0", "dev_11_22_33_44_55_66">>
CharacteristicPath ==
    <<"org", "bluez", "hci0", "dev_11_22_33_44_55_66", "service0012", "char0034">>

----------------------------------------------------------------------------
(* D-Bus values: a Variant<Box<dyn RefArg>> is a value tagged with its     *)
(* run-time type.                                                          *)

Bool(b) == [type |-> "bool", val |-> b]
I16(n) == [type |-> "i16", val |-> n]
U32(n) == [type |-> "u32", val |-> n]
Bytes(s) == [type |-> "Vec<u8>", val |-> s]
Str(s) == [type |-> "String", val |-> s]
Strings(s) == [type |-> "Vec<String>", val |-> s]
\* HashMap<u16, Variant<..>> and PropMap values: sequences of entries.
U16Map(s) == [type |-> "HashMap<u16,Variant>", val |-> s]
PropMapValue(s) == [type |-> "PropMap", val |-> s]

\* UUID strings as they appear in ServiceData keys and in UUIDs, with the
\* 128-bit value each parses to (here: the value of its first 32 bits).
Uuid_parse_str(s) ==
    IF s = "11223344-0000-1000-8000-00805f9b34fb" THEN Some(287454020)
    ELSE IF s = "0000180f-0000-1000-8000-00805f9b34fb" THEN Some(6159)
    ELSE None

\* The values a bag may hold under each key: values of the type BlueZ
\* documents for the key, and one of a type the decoder does not expect.
ValuesOf(key) ==
    CASE key = "Powered" -> {Bool(TRUE), Bool(FALSE), Str("on")}
      [] key = "Discovering" -> {Bool(TRUE), Bool(FALSE)}
      [] key = "Connected" -> {Bool(TRUE), Bool(FALSE), U32(1)}
      [] key = "RSSI" -> {I16(42), I16(-70), U32(42)}
      [] key = "ManufacturerData" ->
            {U16Map(<< <<42, Bytes(<<1, 2, 3>>)>> >>),
             U16Map(<< <<42, Bytes(<<1>>)>>, <<76, U32(5)>> >>)}
      [] key = "ServiceData" ->
            {PropMapValue(<< <<"11223344-0000-1000-8000-00805f9b34fb", Bytes(<<1, 2, 3>>)>> >>),
             PropMapValue(<< <<"not-a-uuid", Bytes(<<9>>)>>,
                             <<"0000180f-0000-1000-8000-00805f9b34fb", Bytes(<<100>>)>> >>)}
      [] key = "UUIDs" ->
            {Strings(<<"11223344-0000-1000-8000-00805f9b34fb">>),
             Strings(<<"0000180f-0000-1000-8000-00805f9b34fb", "not-a-uuid">>)}
      [] key = "ServicesResolved" -> {Bool(TRUE), Bool(FALSE)}
      [] key = "Value" -> {Bytes(<<>>), Bytes(<<1, 2, 3>>), Bytes(<<3, 2>>), Str("abc")}
      [] key = "Alias" -> {Str("sensor")}

AdapterKeys == {"Powered", "Discovering"}
DeviceKeys ==
    {"Connected", "RSSI", "ManufacturerData", "ServiceData", "UUIDs", "ServicesResolved"}
CharacteristicKeys == {"Value"}
\* "Alias" is a property of Adapter1 and Device1 the decoder never reads.
Keys == AdapterKeys \cup DeviceKeys \cup CharacteristicKeys \cup {"Alias"}

Entries == UNION {{<<k, v>> : v \in ValuesOf(k)} : k \in Keys}

\* All property bags of at most n entries, in every iteration order.
RECURSIVE BagsUpTo(_)
BagsUpTo(n) ==
    IF n = 0 THEN {<<>>}
    ELSE LET smaller == BagsUpTo(n - 1)
         IN  smaller \cup
             {Append(b, e) : b \in {x \in smaller : Len(x) = n - 1},
                             e \in Entries}

HasKey(bag, key) == \E i \in 1..Len(bag) : bag[i][1] = key
DistinctKeys(bag) ==
    \A i, j \in 1..Len(bag) : bag[i][1] = bag[j][1] => i = j
PropMaps == {b \in BagsUpTo(MaxBag) : DistinctKeys(b)}

----------------------------------------------------------------------------
(* The generated property accessors (bluez-generated).                     *)

\* HashMap::get: the value stored under `key`, whatever the iteration order.
MapGet(bag, key) ==
    IF HasKey(bag, key)
    THEN Some(bag[CHOOSE i \in 1..Len(bag) : bag[i][1] = key][2])
    ELSE None

\* arg::prop_cast::<T>(map, key): the value under `key` if it is of run-time
\* type T, otherwise None (absent key or failed downcast).
prop_cast(bag, key, type) ==
    LET v == MapGet(bag, key)
    IN  IF IsSome(v) /\ Unwrap(v).type = type THEN Some(Unwrap(v).val) ELSE None

\* OrgBluezAdapter1Properties
powered(bag) == prop_cast(bag, "Powered", "bool")
discovering(bag) == prop_cast(bag, "Discovering", "bool")
\* OrgBluezDevice1Properties
connected(bag) == prop_cast(bag, "Connected", "bool")
rssi(bag) == prop_cast(bag, "RSSI", "i16")
manufacturer_data(bag) == prop_cast(bag, "ManufacturerData", "HashMap<u16,Variant>")
service_data(bag) == prop_cast(bag, "ServiceData", "PropMap")
uuids(bag) == prop_cast(bag, "UUIDs", "Vec<String>")
services_resolved(bag) == prop_cast(bag, "ServicesResolved", "bool")
\* OrgBluezGattCharacteristic1Properties
value(bag) == prop_cast(bag, "Value", "Vec<u8>")

\* OrgBluezDevice1Properties::from_interfaces: the property map stored under
\* the device interface, if the interface is in the map.
from_interfaces(interfaces) ==
    IF ORG_BLUEZ_DEVICE1_NAME \in DOMAIN interfaces
    THEN Some(interfaces[ORG_BLUEZ_DEVICE1_NAME])
    ELSE None

----------------------------------------------------------------------------
(* Payload conversions (bluez-async/src/device.rs).                        *)

\* HashMap<u16, Variant> -> HashMap<u16, Vec<u8>>: the entries whose value
\* is a byte array.
RECURSIVE convert_manufacturer_data(_)
convert_manufacturer_data(data) ==
    IF data = <<>> THEN <<>>
    ELSE LET e == Head(data)
         IN  (IF e[2].type = "Vec<u8>" THEN << <<e[1], e[2].val>> >> ELSE <<>>)
             \o convert_manufacturer_data(Tail(data))

\* PropMap -> HashMap<Uuid, Vec<u8>>: the entries whose key parses as a UUID
\* and whose value is a byte array.
RECURSIVE convert_service_data(_)
convert_service_data(data) ==
    IF data = <<>> THEN <<>>
    ELSE LET e == Head(data)
             uuid == Uuid_parse_str(e[1])
         IN  (IF IsSome(uuid) /\ e[2].type = "Vec<u8>"
              THEN << <<Unwrap(uuid), e[2].val>> >> ELSE <<>>)
             \o convert_service_data(Tail(data))

\* &[String] -> Vec<Uuid>: the strings that parse as UUIDs, in order.
RECURSIVE convert_services(_)
convert_services(strings) ==
    IF strings = <<>> THEN <<>>
    ELSE LET uuid == Uuid_parse_str(Head(strings))
         IN  (IF IsSome(uuid) THEN <<Unwrap(uuid)>> ELSE <<>>)
             \o convert_services(Tail(strings))

\* Vec<u8>::to_owned: a copy, element by element.
to_owned(bytes) == [i \in 1..Len(bytes) |-> bytes[i]]

----------------------------------------------------------------------------
(* BluetoothEvent and its payloads.                                        *)

AdapterId(object_path) == [object_path |-> object_path]
DeviceId(object_path) == [object_path |-> object_path]
CharacteristicId(object_path) == [object_path |-> object_path]

AdapterEvent_Powered(b) == [tag |-> "Powered", powered |-> b]
AdapterEvent_Discovering(b) == [tag |-> "Discovering", discovering |-> b]
DeviceEvent_Discovered == [tag |-> "Discovered"]
DeviceEvent_Connected(b) == [tag |-> "Connected", connected |-> b]
DeviceEvent_Rssi(n) == [tag |-> "Rssi", rssi |-> n]
DeviceEvent_ManufacturerData(m) == [tag |-> "ManufacturerData", manufacturer_data |-> m]
DeviceEvent_ServiceData(m) == [tag |-> "ServiceData", service_data |-> m]
DeviceEvent_Services(s) == [tag |-> "Services", services |-> s]
DeviceEvent_ServicesResolved == [tag |-> "ServicesResolved"]
CharacteristicEvent_Value(v) == [tag |-> "Value", value |-> v]

BluetoothEvent_Adapter(id, event) == [kind |-> "Adapter", id |-> id, event |-> event]
BluetoothEvent_Device(id, event) == [kind |-> "Device", id |-> id, event |-> event]
BluetoothEvent_Characteristic(id, event) ==
    [kind |-> "Characteristic", id |-> id, event |-> event]

----------------------------------------------------------------------------
(* Messages.                                                               *)

MessageTypes == {"signal", "method_call", "method_return", "error"}

\* Message bodies, by signature: the arguments of PropertiesChanged
\* (sa{sv}as), those of InterfacesAdded (oa{sa{sv}}), and no arguments.
PropertiesChangedBody(interface_name, changed_properties) ==
    [sig |-> "sa{sv}as",
     interface_name |-> interface_name,
     changed_properties |-> changed_properties,
     invalidated_properties |-> <<>>]
InterfacesAddedBody(object, interfaces) ==
    [sig |-> "oa{sa{sv}}", object |-> object, interfaces |-> interfaces]
EmptyBody == [sig |-> ""]

Message(msg_type, path, interface, member, body) ==
    [msg_type |-> msg_type, path |-> path, interface |-> interface,
     member |-> member, body |-> body]

\* SignalArgs::to_emit_message(path): the signal a sender emits at `path`.
PropertiesChangedMessage(path, interface_name, changed_properties) ==
    Message("signal", Some(path), Some(PROPERTIES_INTERFACE), Some(PROPERTIES_CHANGED),
            PropertiesChangedBody(interface_name, changed_properties))
InterfacesAddedMessage(path, object, interfaces) ==
    Message("signal", Some(path), Some(OBJECT_MANAGER_INTERFACE), Some(INTERFACES_ADDED),
            InterfacesAddedBody(object, interfaces))

InterfaceNames ==
    {ORG_BLUEZ_ADAPTER1_NAME, ORG_BLUEZ_DEVICE1_NAME,
     ORG_BLUEZ_GATT_CHARACTERISTIC1_NAME, ORG_BLUEZ_BATTERY1_NAME}

\* The property maps an added interface arrives with.
AddedPropMaps ==
    {<<>>, << <<"RSSI", I16(42)>> >>, << <<"Alias", Str("sensor")>> >>}
AddedInterfaceNames ==
    {ORG_BLUEZ_DEVICE1_NAME, ORG_BLUEZ_ADAPTER1_NAME, ORG_BLUEZ_BATTERY1_NAME}
InterfaceMaps ==
    UNION {[names -> AddedPropMaps] : names \in SUBSET AddedInterfaceNames}

PropertiesChangedBodies ==
    {PropertiesChangedBody(n, b) : n \in InterfaceNames, b \in PropMaps}
InterfacesAddedBodies ==
    {InterfacesAddedBody(o, i) :
        o \in {AdapterPath, DevicePath, CharacteristicPath}, i \in InterfaceMaps}
SampleBodies ==
    {PropertiesChangedBody(ORG_BLUEZ_ADAPTER1_NAME, << <<"Powered", Bool(TRUE)>> >>),
     InterfacesAddedBody(DevicePath, [n \in {ORG_BLUEZ_DEVICE1_NAME} |-> <<>>]),
     EmptyBody}

\* Messages of every type, with and without each header field.
HeaderMessages ==
    {Message(t, p, i, m, b) :
        t \in MessageTypes,
        p \in {None, Some(RootPath), Some(AdapterPath)},
        i \in {None, Some(PROPERTIES_INTERFACE), Some(OBJECT_MANAGER_INTERFACE),
               Some(ORG_BLUEZ_DEVICE1_NAME)},
        m \in {None, Some(PROPERTIES_CHANGED), Some(INTERFACES_ADDED),
               Some("InterfacesRemoved")},
        b \in SampleBodies}
\* PropertiesChanged signals from objects at every depth, with every bag.
PropertiesChangedMessages ==
    {Message("signal", p, Some(PROPERTIES_INTERFACE), Some(PROPERTIES_CHANGED), b) :
        p \in {None, Some(AdapterPath), Some(DevicePath), Some(CharacteristicPath)},
        b \in PropertiesChangedBodies}
\* InterfacesAdded signals, as the object manager at "/" or elsewhere emits.
InterfacesAddedMessages ==
    {Message("signal", Some(p), Some(OBJECT_MANAGER_INTERFACE), Some(INTERFACES_ADDED), b) :
        p \in {RootPath, AdapterPath}, b \in InterfacesAddedBodies}

Messages == HeaderMessages \cup PropertiesChangedMessages \cup InterfacesAddedMessages

----------------------------------------------------------------------------
(* SignalArgs::from_message (dbus crate), as events.rs uses it.            *)

\* Faulty variant of SignalArgs_from_message: the message type is not looked
\* at, so a method call or reply named like the signal is read as the signal.
SignalArgs_from_message_any_type(m, interface, member, sig) ==
    IF m.interface # Some(interface) THEN None
    ELSE IF m.member # Some(member) THEN None
    ELSE IF m.body.sig = sig THEN Some(m.body) ELSE None

\* Some(arguments) if m is a signal of the given interface and member whose
\* body reads as the signal's arguments; None otherwise.
SignalArgs_from_message(m, interface, member, sig) ==
    IF m.msg_type # "signal" THEN None
    ELSE IF m.interface # Some(interface) THEN None
    ELSE IF m.member # Some(member) THEN None
    ELSE IF m.body.sig = sig THEN Some(m.body) ELSE None

PropertiesPropertiesChanged_from_message(m) ==
    SignalArgs_from_message(m, PROPERTIES_INTERFACE, PROPERTIES_CHANGED, "sa{sv}as")
ObjectManagerInterfacesAdded_from_message(m) ==
    SignalArgs_from_message(m, OBJECT_MANAGER_INTERFACE, INTERFACES_ADDED, "oa{sa{sv}}")

----------------------------------------------------------------------------
(* The decoder (events.rs).                                                *)

\* Faulty variant of adapter_events: a Discovering event is pushed whether or
\* not the key is in the bag (`discovering().unwrap_or(false)`).
adapter_events_default_false(object_path, changed_properties) ==
    LET id == AdapterId(object_path)
        p == powered(changed_properties)
        d == discovering(changed_properties)
    IN  (IF IsSome(p)
         THEN <<BluetoothEvent_Adapter(id, AdapterEvent_Powered(Unwrap(p)))>>
         ELSE <<>>)
     \o <<BluetoothEvent_Adapter(id,
            AdapterEvent_Discovering(IF IsSome(d) THEN Unwrap(d) ELSE FALSE))>>

\* Faulty variant of adapter_events: the Powered value is pushed as a
\* Discovering event (the second `if let` copied over the first).
adapter_events_copied_arm(object_path, changed_properties) ==
    LET id == AdapterId(object_path)
        p == powered(changed_properties)
        d == discovering(changed_properties)
    IN  (IF IsSome(p)
         THEN <<BluetoothEvent_Adapter(id, AdapterEvent_Discovering(Unwrap(p)))>>
         ELSE <<>>)
     \o (IF IsSome(d)
         THEN <<BluetoothEvent_Adapter(id, AdapterEvent_Discovering(Unwrap(d)))>>
         ELSE <<>>)

\* The arm of properties_changed_to_events for org.bluez.Adapter1.
adapter_events(object_path, changed_properties) ==
    LET id == AdapterId(object_path)
        p == powered(changed_properties)
        d == discovering(changed_properties)
    IN  (IF IsSome(p)
         THEN <<BluetoothEvent_Adapter(id, AdapterEvent_Powered(Unwrap(p)))>>
         ELSE <<>>)
     \o (IF IsSome(d)
         THEN <<BluetoothEvent_Adapter(id, AdapterEvent_Discovering(Unwrap(d)))>>
         ELSE <<>>)

\* Faulty variant of device_events: the bag is iterated and each entry is
\* turned into its event as it is met, so events come in the bag's order.
RECURSIVE device_events_of_entries(_, _)
device_events_of_entries(id, entries) ==
    IF entries = <<>> THEN <<>>
    ELSE LET one == <<Head(entries)>>
             c == connected(one)
             r == rssi(one)
             md == manufacturer_data(one)
             sd == service_data(one)
             u == uuids(one)
         IN  (IF IsSome(c)
              THEN <<BluetoothEvent_Device(id, DeviceEvent_Connected(Unwrap(c)))>>
              ELSE IF IsSome(r)
              THEN <<BluetoothEvent_Device(id, DeviceEvent_Rssi(Unwrap(r)))>>
              ELSE IF IsSome(md)
              THEN <<BluetoothEvent_Device(id,
                       DeviceEvent_ManufacturerData(convert_manufacturer_data(Unwrap(md))))>>
              ELSE IF IsSome(sd)
              THEN <<BluetoothEvent_Device(id,
                       DeviceEvent_ServiceData(convert_service_data(Unwrap(sd))))>>
              ELSE IF IsSome(u)
              THEN <<BluetoothEvent_Device(id,
                       DeviceEvent_Services(convert_services(Unwrap(u))))>>
              ELSE IF services_resolved(one) = Some(TRUE)
              THEN <<BluetoothEvent_Device(id, DeviceEvent_ServicesResolved)>>
              ELSE <<>>)
             \o device_events_of_entries(id, Tail(entries))
device_events_bag_order(object_path, changed_properties) ==
    device_events_of_entries(DeviceId(object_path), changed_properties)

\* Faulty variant of device_events: ServicesResolved is pushed whenever the
\* key is present, true or false (`.is_some()` for `== Some(true)`).
device_events_resolved_any(object_path, changed_properties) ==
    LET id == DeviceId(object_path)
        c == connected(changed_properties)
        r == rssi(changed_properties)
        md == manufacturer_data(changed_properties)
        sd == service_data(changed_properties)
        u == uuids(changed_properties)
    IN  (IF IsSome(c)
         THEN <<BluetoothEvent_Device(id, DeviceEvent_Connected(Unwrap(c)))>>
         ELSE <<>>)
     \o (IF IsSome(r)
         THEN <<BluetoothEvent_Device(id, DeviceEvent_Rssi(Unwrap(r)))>>
         ELSE <<>>)
     \o (IF IsSome(md)
         THEN <<BluetoothEvent_Device(id,
                  DeviceEvent_ManufacturerData(convert_manufacturer_data(Unwrap(md))))>>
         ELSE <<>>)
     \o (IF IsSome(sd)
         THEN <<BluetoothEvent_Device(id,
                  DeviceEvent_ServiceData(convert_service_data(Unwrap(sd))))>>
         ELSE <<>>)
     \o (IF IsSome(u)
         THEN <<BluetoothEvent_Device(id, DeviceEvent_Services(convert_services(Unwrap(u))))>>
         ELSE <<>>)
     \o (IF IsSome(services_resolved(changed_properties))
         THEN <<BluetoothEvent_Device(id, DeviceEvent_ServicesResolved)>>
         ELSE <<>>)

\* The arm of properties_changed_to_events for org.bluez.Device1.
device_events(object_path, changed_properties) ==
    LET id == DeviceId(object_path)
        c == connected(changed_properties)
        r == rssi(changed_properties)
        md == manufacturer_data(changed_properties)
        sd == service_data(changed_properties)
        u == uuids(changed_properties)
    IN  (IF IsSome(c)
         THEN <<BluetoothEvent_Device(id, DeviceEvent_Connected(Unwrap(c)))>>
         ELSE <<>>)
     \o (IF IsSome(r)
         THEN <<BluetoothEvent_Device(id, DeviceEvent_Rssi(Unwrap(r)))>>
         ELSE <<>>)
     \o (IF IsSome(md)
         THEN <<BluetoothEvent_Device(id,
                  DeviceEvent_ManufacturerData(convert_manufacturer_data(Unwrap(md))))>>
         ELSE <<>>)
     \o (IF IsSome(sd)
         THEN <<BluetoothEvent_Device(id,
                  DeviceEvent_ServiceData(convert_service_data(Unwrap(sd))))>>
         ELSE <<>>)
     \o (IF IsSome(u)
         THEN <<BluetoothEvent_Device(id, DeviceEvent_Services(convert_services(Unwrap(u))))>>
         ELSE <<>>)
     \o (IF services_resolved(changed_properties) = Some(TRUE)
         THEN <<BluetoothEvent_Device(id, DeviceEvent_ServicesResolved)>>
         ELSE <<>>)

\* Faulty variant of characteristic_events: an empty value is taken for "no
\* value" and dropped.
characteristic_events_skip_empty(object_path, changed_properties) ==
    LET id == CharacteristicId(object_path)
        v == value(changed_properties)
    IN  IF IsSome(v) /\ Unwrap(v) # <<>>
        THEN <<BluetoothEvent_Characteristic(id, CharacteristicEvent_Value(to_owned(Unwrap(v))))>>
        ELSE <<>>

\* The arm of properties_changed_to_events for org.bluez.GattCharacteristic1.
characteristic_events(object_path, changed_properties) ==
    LET id == CharacteristicId(object_path)
        v == value(changed_properties)
    IN  IF IsSome(v)
        THEN <<BluetoothEvent_Characteristic(id, CharacteristicEvent_Value(to_owned(Unwrap(v))))>>
        ELSE <<>>

\* Faulty variant of properties_changed_to_events: the arm is chosen by the
\* depth of the path the signal came from, not by the interface name.
properties_changed_to_events_by_depth(object_path, properties_changed) ==
    LET changed_properties == properties_changed.changed_properties
    IN  CASE Len(object_path) = 3 ->
                adapter_events(object_path, changed_properties)
          [] Len(object_path) = 4 ->
                device_events(object_path, changed_properties)
          [] Len(object_path) = 6 ->
                characteristic_events(object_path, changed_properties)
          [] OTHER -> <<>>

\* Faulty variant of properties_changed_to_events: the device arm is the
\* default arm, taken for every interface name that is not matched before.
properties_changed_to_events_default_device(object_path, properties_changed) ==
    LET changed_properties == properties_changed.changed_properties
        interface_name == properties_changed.interface_name
    IN  CASE interface_name = ORG_BLUEZ_ADAPTER1_NAME ->
                adapter_events(object_path, changed_properties)
          [] interface_name = ORG_BLUEZ_GATT_CHARACTERISTIC1_NAME ->
                characteristic_events(object_path, changed_properties)
          [] OTHER -> device_events(object_path, changed_properties)

properties_changed_to_events(object_path, properties_changed) ==
    LET changed_properties == properties_changed.changed_properties
        interface_name == properties_changed.interface_name
    IN  CASE interface_name = ORG_BLUEZ_ADAPTER1_NAME ->
                adapter_events(object_path, changed_properties)
          [] interface_name = ORG_BLUEZ_DEVICE1_NAME ->
                device_events(object_path, changed_properties)
          [] interface_name = ORG_BLUEZ_GATT_CHARACTERISTIC1_NAME ->
                characteristic_events(object_path, changed_properties)
          [] OTHER -> <<>>

\* Faulty variant of interfaces_added_to_events: any added interface counts
\* as a discovered device.
interfaces_added_to_events_any_interface(interfaces_added) ==
    LET object_path == interfaces_added.object
    IN  IF DOMAIN interfaces_added.interfaces # {}
        THEN <<BluetoothEvent_Device(DeviceId(object_path), DeviceEvent_Discovered)>>
        ELSE <<>>

interfaces_added_to_events(interfaces_added) ==
    LET object_path == interfaces_added.object
    IN  IF IsSome(from_interfaces(interfaces_added.interfaces))
        THEN <<BluetoothEvent_Device(DeviceId(object_path), DeviceEvent_Discovered)>>
        ELSE <<>>

\* What a call of message_to_events does: it returns a list of events, or it
\* panics (Option::unwrap on a message that carries no path).
Returned(events) == [panic |-> FALSE, events |-> events]
Panicked == [panic |-> TRUE, events |-> <<>>]

message_to_events(m) ==
    LET properties_changed == PropertiesPropertiesChanged_from_message(m)
        interfaces_added == ObjectManagerInterfacesAdded_from_message(m)
    IN  IF IsSome(properties_changed)
        THEN IF IsSome(m.path)
             THEN Returned(properties_changed_to_events(Unwrap(m.path),
                                                        Unwrap(properties_changed)))
             ELSE Panicked
        ELSE IF IsSome(interfaces_added)
        THEN Returned(interfaces_added_to_events(Unwrap(interfaces_added)))
        ELSE Returned(<<>>)

----------------------------------------------------------------------------
(* The state machine: the transport hands messages to the decoder one at a *)
(* time, and the caller appends what it returns to its event stream.       *)

\* Faulty variant of Decode: a decoder that remembers the last message and
\* returns nothing for an immediate repeat of it.
Decode_deduplicating ==
    /\ pc = "received"
    /\ LET r == IF delivered # <<>> /\ delivered[Len(delivered)] = Unwrap(message)
                THEN Returned(<<>>)
                ELSE message_to_events(Unwrap(message))
       IN  /\ pc' = IF r.panic THEN "panicked" ELSE "returned"
           /\ result' = r.events
           /\ delivered' = Append(delivered, Unwrap(message))
           /\ emitted' = IF r.panic THEN emitted ELSE Append(emitted, r.events)
           /\ stream' = stream \o r.events
    /\ UNCHANGED <<message, call, outcome>>

\* The decoder is called on the message at hand and returns or panics.
Decode ==
    /\ pc = "received"
    /\ LET r == message_to_events(Unwrap(message))
       IN  /\ pc' = IF r.panic THEN "panicked" ELSE "returned"
           /\ result' = r.events
           /\ delivered' = Append(delivered, Unwrap(message))
           /\ emitted' = IF r.panic THEN emitted ELSE Append(emitted, r.events)
           /\ stream' = stream \o r.events
    /\ UNCHANGED <<message, call, outcome>>

\* The transport delivers the next message.
Receive(m) ==
    /\ pc \in {"idle", "returned"}
    /\ Len(delivered) < MaxDelivered
    /\ message' = Some(m)
    /\ pc' = "received"
    /\ result' = <<>>
    /\ UNCHANGED <<delivered, emitted, stream, call, outcome>>

\* One message, any message: the decoder as a function of its input.
Init ==
    /\ message \in {Some(m) : m \in Messages}
    /\ pc = "received"
    /\ result = <<>>
    /\ delivered = <<>>
    /\ emitted = <<>>
    /\ stream = <<>>
    /\ call = NoCall
    /\ outcome = NoOutcome

Next == Decode

Spec == Init /\ [][Next]_vars

\* A sequence of messages: the decoder over a run of the transport.
StreamMessages ==
    {PropertiesChangedMessage(AdapterPath, ORG_BLUEZ_ADAPTER1_NAME,
                              << <<"Powered", Bool(TRUE)>> >>),
     PropertiesChangedMessage(DevicePath, ORG_BLUEZ_DEVICE1_NAME,
                              << <<"RSSI", I16(42)>>, <<"Connected", Bool(TRUE)>> >>),
     PropertiesChangedMessage(DevicePath, ORG_BLUEZ_DEVICE1_NAME,
                              << <<"ServicesResolved", Bool(FALSE)>> >>),
     PropertiesChangedMessage(CharacteristicPath, ORG_BLUEZ_GATT_CHARACTERISTIC1_NAME,
                              << <<"Value", Bytes(<<1, 2, 3>>)>> >>),
     InterfacesAddedMessage(RootPath, DevicePath,
                            [n \in {ORG_BLUEZ_DEVICE1_NAME} |-> <<>>]),
     Message("method_return", None, None, None, EmptyBody),
     Message("signal", None, Some(PROPERTIES_INTERFACE), Some(PROPERTIES_CHANGED),
             PropertiesChangedBody(ORG_BLUEZ_ADAPTER1_NAME, <<>>))}

InitStream ==
    /\ message = None
    /\ pc = "idle"
    /\ result = <<>>
    /\ delivered = <<>>
    /\ emitted = <<>>
    /\ stream = <<>>
    /\ call = NoCall
    /\ outcome = NoOutcome

NextStream ==
    \/ \E m \in StreamMessages : Receive(m)
    \/ Decode

SpecStream == InitStream /\ [][NextStream]_vars

----------------------------------------------------------------------------
(* Vocabulary of the properties below.  These are written from the         *)
(* messages and events themselves, not from the decoder's operators.       *)

\* The message the decoder was last called on, and whether it has returned.
Msg == Unwrap(message)
HasReturned == pc = "returned"
HasFinished == pc \in {"returned", "panicked"}

\* m is a signal named PropertiesChanged / InterfacesAdded by its header.
NamedPropertiesChanged(m) ==
    /\ m.msg_type = "signal"
    /\ m.interface = <<"org.freedesktop.DBus.Properties">>
    /\ m.member = <<"PropertiesChanged">>
NamedInterfacesAdded(m) ==
    /\ m.msg_type = "signal"
    /\ m.interface = <<"org.freedesktop.DBus.ObjectManager">>
    /\ m.member = <<"InterfacesAdded">>
\* ... and carries the arguments of that signal.
IsPropertiesChanged(m) == NamedPropertiesChanged(m) /\ m.body.sig = "sa{sv}as"
IsInterfacesAdded(m) == NamedInterfacesAdded(m) /\ m.body.sig = "oa{sa{sv}}"

\* A PropertiesChanged signal on interface `name`, decoded.
DecodedChangeOn(name) ==
    /\ HasReturned
    /\ IsPropertiesChanged(Msg)
    /\ Msg.body.interface_name = name
ChangedBag == Msg.body.changed_properties

\* The entry of a bag under a key, as a set (empty when the key is absent).
Held(bag, key) == {bag[i][2] : i \in {i \in 1..Len(bag) : bag[i][1] = key}}
Tags(events) == [i \in 1..Len(events) |-> events[i].event.tag]

----------------------------------------------------------------------------
C2_UnrecognizedYieldsNothing ==
    (HasFinished /\ ~NamedPropertiesChanged(Msg) /\ ~NamedInterfacesAdded(Msg))
        => (HasReturned /\ result = <<>>)

\* C2, its case: a method call that is PropertiesChanged in all but its
\* message type was decoded to nothing.
C2_Witness ==
    /\ HasReturned
    /\ Msg.msg_type = "method_call"
    /\ Msg.interface = <<"org.freedesktop.DBus.Properties">>
    /\ Msg.member = <<"PropertiesChanged">>
    /\ Msg.body.sig = "sa{sv}as"
    /\ Msg.path # <<>>
    /\ result = <<>>

\* C3: an InterfacesAdded message decodes to exactly one event,
\* Device{id = the added object's path, Discovered}, when the payload's
\* interface map contains org.bluez.Device1 (whatever its properties and
\* whatever else is in the map), and to the empty list otherwise.
C3_InterfacesAdded ==
    (HasFinished /\ IsInterfacesAdded(Msg)) =>
        /\ HasReturned
        /\ result =
             IF "org.bluez.Device1" \in DOMAIN Msg.body.interfaces
             THEN << [kind |-> "Device",
                      id |-> [object_path |-> Msg.body.object],
                      event |-> [tag |-> "Discovered"]] >>
             ELSE <<>>

\* C3, its case: a device added together with another interface, with
\* properties, announced by an object manager at another path.
C3_Witness ==
    /\ HasReturned
    /\ IsInterfacesAdded(Msg)
    /\ DOMAIN Msg.body.interfaces = {"org.bluez.Device1", "org.bluez.Battery1"}
    /\ Msg.body.interfaces["org.bluez.Device1"] # <<>>
    /\ Msg.path # <<Msg.body.object>>
    /\ Len(result) = 1

\* C4: the events of a PropertiesChanged message appear in the fixed key
\* order of its interface (adapter: Powered, Discovering; device:
\* Connected, Rssi, ManufacturerData, ServiceData, Services,
\* ServicesResolved), whatever the order of the keys in the bag.
KeyOrder ==
    <<"Powered", "Discovering", "Connected", "Rssi", "ManufacturerData",
      "ServiceData", "Services", "ServicesResolved", "Value">>
Rank(tag) == CHOOSE i \in 1..Len(KeyOrder) : KeyOrder[i] = tag
C4_FixedKeyOrder ==
    (HasReturned /\ IsPropertiesChanged(Msg)) =>
        \A i, j \in 1..Len(result) :
            i < j => Rank(result[i].event.tag) < Rank(result[j].event.tag)

\* C4, its case: the bag iterates RSSI before Connected, and the events are
\* Connected, then Rssi.
C4_Witness ==
    /\ DecodedChangeOn("org.bluez.Device1")
    /\ Len(ChangedBag) = 2
    /\ ChangedBag[1][1] = "RSSI"
    /\ ChangedBag[2][1] = "Connected"
    /\ Tags(result) = <<"Connected", "Rssi">>

\* C5: on the adapter, device and characteristic interfaces each recognized
\* key in the bag yields at most one event and a key not in the bag yields
\* none: no more events than recognized keys present, none from an empty
\* bag, none for a key outside the interface's recognized set.
RecognizedKeys(name) ==
    CASE name = "org.bluez.Adapter1" -> {"Powered", "Discovering"}
      [] name = "org.bluez.Device1" ->
            {"Connected", "RSSI", "ManufacturerData", "ServiceData", "UUIDs",
             "ServicesResolved"}
      [] name = "org.bluez.GattCharacteristic1" -> {"Value"}
      [] OTHER -> {}
KeyOfTag(tag) ==
    CASE tag = "Rssi" -> "RSSI"
      [] tag = "Services" -> "UUIDs"
      [] OTHER -> tag
C5_AtMostOneEventPerKey ==
    (HasReturned /\ IsPropertiesChanged(Msg)
        /\ Msg.body.interface_name \in
              {"org.bluez.Adapter1", "org.bluez.Device1", "org.bluez.GattCharacteristic1"})
    => LET present == {k \in RecognizedKeys(Msg.body.interface_name) : Held(ChangedBag, k) # {}}
       IN  /\ Len(result) <= Cardinality(present)
           /\ \A i \in 1..Len(result) : KeyOfTag(result[i].event.tag) \in present
           /\ \A i, j \in 1..Len(result) :
                 result[i].event.tag = result[j].event.tag => i = j
           /\ ChangedBag = <<>> => result = <<>>

\* C5, its case: a device bag with one recognized key and one key the
\* device interface does not recognize yields exactly one event.
C5_Witness ==
    /\ DecodedChangeOn("org.bluez.Device1")
    /\ Len(ChangedBag) = 2
    /\ Held(ChangedBag, "Powered") # {}
    /\ Held(ChangedBag, "RSSI") # {}
    /\ Len(result) = 1

\* C6: a PropertiesChanged on the device interface yields ServicesResolved
\* if and only if the bag holds ServicesResolved = true; ServicesResolved =
\* false yields no event for the key, while Connected = false still yields
\* Connected{false}.
C6_ServicesResolvedOnlyIfTrue ==
    DecodedChangeOn("org.bluez.Device1") =>
        /\ (\E i \in 1..Len(result) : result[i].event.tag = "ServicesResolved")
              <=> [type |-> "bool", val |-> TRUE] \in Held(ChangedBag, "ServicesResolved")
        /\ [type |-> "bool", val |-> FALSE] \in Held(ChangedBag, "Connected")
              => \E i \in 1..Len(result) :
                    result[i].event = [tag |-> "Connected", connected |-> FALSE]

\* C6, its case: ServicesResolved = false and Connected = false together
\* yield the one event Connected{false}.
C6_Witness ==
    /\ DecodedChangeOn("org.bluez.Device1")
    /\ [type |-> "bool", val |-> FALSE] \in Held(ChangedBag, "ServicesResolved")
    /\ [type |-> "bool", val |-> FALSE] \in Held(ChangedBag, "Connected")
    /\ Tags(result) = <<"Connected">>

\* C7: a PropertiesChanged message on an interface that is none of the
\* adapter, device and characteristic interfaces yields no event, whatever
\* its bag holds.
C7_UnknownInterfaceYieldsNothing ==
    (HasReturned /\ IsPropertiesChanged(Msg)
        /\ Msg.body.interface_name \notin
              {"org.bluez.Adapter1", "org.bluez.Device1", "org.bluez.GattCharacteristic1"})
    => result = <<>>

\* C7, its case: Powered and RSSI changed on org.bluez.Battery1.
C7_Witness ==
    /\ DecodedChangeOn("org.bluez.Battery1")
    /\ Held(ChangedBag, "Powered") = {[type |-> "bool", val |-> TRUE]}
    /\ Held(ChangedBag, "RSSI") = {[type |-> "i16", val |-> 42]}
    /\ result = <<>>

\* C8: at any path P, an adapter PropertiesChanged whose bag holds only
\* Powered = b decodes to exactly [Adapter{P, Powered{b}}], and a device
\* PropertiesChanged whose bag holds only RSSI = r to [Device{P, Rssi{r}}].
C8_SingleProperty ==
    (HasFinished /\ IsPropertiesChanged(Msg) /\ Msg.path # <<>> /\ Len(ChangedBag) = 1) =>
        LET P == Msg.path[1]
            key == ChangedBag[1][1]
            held == ChangedBag[1][2]
        IN  /\ (Msg.body.interface_name = "org.bluez.Adapter1"
                   /\ key = "Powered" /\ held.type = "bool")
               => /\ HasReturned
                  /\ result = << [kind |-> "Adapter",
                                  id |-> [object_path |-> P],
                                  event |-> [tag |-> "Powered", powered |-> held.val]] >>
            /\ (Msg.body.interface_name = "org.bluez.Device1"
                   /\ key = "RSSI" /\ held.type = "i16")
               => /\ HasReturned
                  /\ result = << [kind |-> "Device",
                                  id |-> [object_path |-> P],
                                  event |-> [tag |-> "Rssi", rssi |-> held.val]] >>

\* C8, its case: RSSI = 42 changed on the device.
C8_Witness ==
    /\ DecodedChangeOn("org.bluez.Device1")
    /\ Msg.path = << <<"org", "bluez", "hci0", "dev_11_22_33_44_55_66">> >>
    /\ ChangedBag = << <<"RSSI", [type |-> "i16", val |-> 42]>> >>
    /\ Len(result) = 1
    /\ result[1].event.rssi = 42

\* C9: at path P, a characteristic PropertiesChanged whose bag holds Value =
\* bytes decodes to exactly [Characteristic{P, Value{bytes}}], the bytes
\* unchanged (same bytes, order and length, the empty payload included).
C9_ValueCarriedUnchanged ==
    (HasFinished /\ IsPropertiesChanged(Msg) /\ Msg.path # <<>>
        /\ Msg.body.interface_name = "org.bluez.GattCharacteristic1")
    => \A held \in Held(ChangedBag, "Value") :
          held.type = "Vec<u8>" =>
              /\ HasReturned
              /\ result = << [kind |-> "Characteristic",
                              id |-> [object_path |-> Msg.path[1]],
                              event |-> [tag |-> "Value", value |-> held.val]] >>

\* C9, its case: the empty payload, decoded to one Value event.
C9_Witness ==
    /\ DecodedChangeOn("org.bluez.GattCharacteristic1")
    /\ Held(ChangedBag, "Value") = {[type |-> "Vec<u8>", val |-> <<>>]}
    /\ Len(result) = 1
    /\ result[1].event.value = <<>>

\* C10: over any sequence of messages, the events of a message depend on
\* that message alone (the same message decodes to the same list wherever
\* it stands in the sequence), and the event stream is the per-message
\* lists concatenated in order: nothing is reordered, held back, dropped
\* as a duplicate or merged.
RECURSIVE Flatten(_)
Flatten(lists) == IF lists = <<>> THEN <<>> ELSE Head(lists) \o Flatten(Tail(lists))
----------------------------------------------------------------------------
(* Strings.  A Rust string is modelled as the sequence of its characters,  *)
(* each a one-character string; byte indices are 0-based as in Rust.       *)

\* str::starts_with
starts_with(s, prefix) ==
    Len(prefix) <= Len(s) /\ SubSeq(s, 1, Len(prefix)) = prefix

\* &s[from..to]
Slice(s, from, to) == SubSeq(s, from + 1, to)

\* The characters of each path segment the model uses.
SegmentText(seg) ==
    CASE seg = "org" ->
            <<"o", "r", "g">>
      [] seg = "bluez" ->
            <<"b", "l", "u", "e", "z">>
      [] seg = "hci0" ->
            <<"h", "c", "i", "0">>
      [] seg = "hci00" ->
            <<"h", "c", "i", "0", "0">>
      [] seg = "dev_11_22_33_44_55_66" ->
            <<"d", "e", "v", "_", "1", "1", "_", "2", "2", "_", "3", "3", "_", "4", "4", "_", "5", "5", "_", "6", "6">>
      [] seg = "dev_11_22_33_44_55_66_2" ->
            <<"d", "e", "v", "_", "1", "1", "_", "2", "2", "_", "3", "3", "_", "4", "4", "_", "5", "5", "_", "6", "6", "_", "2">>
      [] seg = "dev_AA_BB_CC_DD_EE_FF" ->
            <<"d", "e", "v", "_", "A", "A", "_", "B", "B", "_", "C", "C", "_", "D", "D", "_", "E", "E", "_", "F", "F">>
      [] seg = "service0012" ->
            <<"s", "e", "r", "v", "i", "c", "e", "0", "0", "1", "2">>
      [] seg = "service00120" ->
            <<"s", "e", "r", "v", "i", "c", "e", "0", "0", "1", "2", "0">>
      [] seg = "char0034" ->
            <<"c", "h", "a", "r", "0", "0", "3", "4">>
      [] seg = "com" ->
            <<"c", "o", "m">>
      [] seg = "example" ->
            <<"e", "x", "a", "m", "p", "l", "e">>
      [] seg = "obj" ->
            <<"o", "b", "j">>

\* The text of the object path made of the given segments: "/" for the root,
\* otherwise each segment preceded by '/'.
RECURSIVE JoinSegments(_)
JoinSegments(segments) ==
    IF segments = <<>> THEN <<>>
    ELSE <<"/">> \o SegmentText(Head(segments)) \o JoinSegments(Tail(segments))
PathText(segments) == IF segments = <<>> THEN <<"/">> ELSE JoinSegments(segments)

----------------------------------------------------------------------------
(* Subscription filters: BluetoothEvent::match_rules (events.rs) and       *)
(* MatchRule::matches (dbus crate), which the tests apply to the result.   *)

BUS_NAME == "org.bluez"

\* Object paths of the bus: the daemon's objects, objects whose path shares
\* a string prefix with one of them, and an object outside /org/bluez.
ServicePath == <<"org", "bluez", "hci0", "dev_11_22_33_44_55_66", "service0012">>
AdapterSiblingPath == <<"org", "bluez", "hci00">>
DeviceSiblingPath == <<"org", "bluez", "hci0", "dev_11_22_33_44_55_66_2">>
ServiceSiblingPath == <<"org", "bluez", "hci0", "dev_11_22_33_44_55_66", "service00120">>
OtherDevicePath == <<"org", "bluez", "hci0", "dev_AA_BB_CC_DD_EE_FF">>
NamespacePath == <<"org", "bluez">>
ForeignPath == <<"com", "example", "obj">>

ProbePaths ==
    {RootPath, NamespacePath, AdapterPath, AdapterSiblingPath, DevicePath,
     DeviceSiblingPath, OtherDevicePath, ServicePath, ServiceSiblingPath,
     CharacteristicPath, ForeignPath}

\* The objects a caller subscribes to: an adapter, a device, a service or a
\* characteristic (the path of an AdapterId, DeviceId, ServiceId or
\* CharacteristicId).
TargetPaths == {AdapterPath, DevicePath, OtherDevicePath, ServicePath, CharacteristicPath}

\* A message together with the bus name of its sender, if it carries one.
SentMessage(m, sender) ==
    [msg_type |-> m.msg_type, path |-> m.path, interface |-> m.interface,
     member |-> m.member, body |-> m.body, sender |-> sender]

\* Senders: none (a message built locally, as the tests do), the daemon,
\* and another service.
Senders == {None, Some("org.bluez"), Some("org.example")}

ProbeMessages ==
    {SentMessage(Message(t, p, h[1], h[2], EmptyBody), s) :
        t \in {"signal", "method_call"},
        p \in {None} \cup {Some(q) : q \in ProbePaths},
        h \in {<<Some(PROPERTIES_INTERFACE), Some(PROPERTIES_CHANGED)>>,
               <<Some(OBJECT_MANAGER_INTERFACE), Some(INTERFACES_ADDED)>>,
               <<Some(OBJECT_MANAGER_INTERFACE), Some("InterfacesRemoved")>>},
        s \in Senders}

\* Faulty variant of SignalArgs::match_rule: the rule does not ask for a
\* signal.
SignalArgs_match_rule_untyped(sender, path, interface, member) ==
    [msg_type |-> None,
     sender |-> sender,
     path |-> path,
     path_is_namespace |-> FALSE,
     interface |-> Some(interface),
     member |-> Some(member)]

\* SignalArgs::match_rule(sender, path): the rule for one signal.
SignalArgs_match_rule(sender, path, interface, member) ==
    [msg_type |-> Some("signal"),
     sender |-> sender,
     path |-> path,
     path_is_namespace |-> FALSE,
     interface |-> Some(interface),
     member |-> Some(member)]

\* Faulty variant of match_rules: the InterfacesAdded rule is pushed whether
\* or not it was asked for.
match_rules_always_added(object, interfaces_added) ==
    <<SignalArgs_match_rule(Some(BUS_NAME), None,
                            OBJECT_MANAGER_INTERFACE, INTERFACES_ADDED)>>
    \o <<[SignalArgs_match_rule(Some(BUS_NAME), object,
                                PROPERTIES_INTERFACE, PROPERTIES_CHANGED)
            EXCEPT !.path_is_namespace = TRUE]>>

\* Faulty variant of match_rules: path_is_namespace is left at its default,
\* so the PropertiesChanged rule matches the target's own path only.
match_rules_exact_path(object, interfaces_added) ==
    (IF interfaces_added
     THEN <<SignalArgs_match_rule(Some(BUS_NAME), None,
                                  OBJECT_MANAGER_INTERFACE, INTERFACES_ADDED)>>
     ELSE <<>>)
    \o <<SignalArgs_match_rule(Some(BUS_NAME), object,
                               PROPERTIES_INTERFACE, PROPERTIES_CHANGED)>>

\* Faulty variant of match_rules: the InterfacesAdded rule is scoped to the
\* target like the PropertiesChanged rule.
match_rules_added_scoped(object, interfaces_added) ==
    (IF interfaces_added
     THEN <<[SignalArgs_match_rule(Some(BUS_NAME), object,
                                   OBJECT_MANAGER_INTERFACE, INTERFACES_ADDED)
               EXCEPT !.path_is_namespace = TRUE]>>
     ELSE <<>>)
    \o <<[SignalArgs_match_rule(Some(BUS_NAME), object,
                                PROPERTIES_INTERFACE, PROPERTIES_CHANGED)
            EXCEPT !.path_is_namespace = TRUE]>>

\* BluetoothEvent::match_rules(object, interfaces_added); `object` is the
\* path of the target, if there is one.
match_rules(object, interfaces_added) ==
    (IF interfaces_added
     THEN <<SignalArgs_match_rule(Some(BUS_NAME), None,
                                  OBJECT_MANAGER_INTERFACE, INTERFACES_ADDED)>>
     ELSE <<>>)
    \o <<[SignalArgs_match_rule(Some(BUS_NAME), object,
                                PROPERTIES_INTERFACE, PROPERTIES_CHANGED)
            EXCEPT !.path_is_namespace = TRUE]>>

\* MatchRule::matches: the sender test.  A rule's well-known name cannot be
\* compared with a message that carries no sender; such a message passes.
sender_match(rule, msg) ==
    IF IsSome(rule.sender) /\ IsSome(msg.sender)
    THEN msg.sender = rule.sender
    ELSE TRUE

\* MatchRule::matches: the path test.  With path_is_namespace the message's
\* path may also be the rule's path followed by '/' and more.
path_match(rule, msg) ==
    IF IsSome(rule.path)
    THEN IF IsSome(msg.path)
         THEN LET x == PathText(Unwrap(rule.path))
                  p == PathText(Unwrap(msg.path))
              IN  IF x # p
                  THEN IF rule.path_is_namespace
                       THEN /\ starts_with(p, x)
                            /\ Slice(p, Len(x), Len(x) + 1) = <<"/">>
                       ELSE FALSE
                  ELSE TRUE
         ELSE FALSE
    ELSE TRUE

MatchRule_matches(rule, msg) ==
    /\ IsSome(rule.msg_type) => Unwrap(rule.msg_type) = msg.msg_type
    /\ sender_match(rule, msg)
    /\ path_match(rule, msg)
    /\ IsSome(rule.interface) => msg.interface = rule.interface
    /\ IsSome(rule.member) => msg.member = rule.member

\* A subscription is built, then a message of the bus is tried against it.
BuildRules ==
    /\ call.op = "match_rules"
    /\ outcome.status = "pending"
    /\ outcome' = [status |-> "built",
                   rules |-> match_rules(call.object, call.interfaces_added)]
    /\ UNCHANGED <<message, pc, result, delivered, emitted, stream, call>>

\* `match_rules.iter().map(|rule| rule.matches(&message))`
MatchProbe ==
    /\ call.op = "match_rules"
    /\ outcome.status = "built"
    /\ outcome' = [status |-> "matched",
                   rules |-> outcome.rules,
                   matched |-> [i \in 1..Len(outcome.rules) |->
                                   MatchRule_matches(outcome.rules[i], call.probe)]]
    /\ UNCHANGED <<message, pc, result, delivered, emitted, stream, call>>

InitMatch ==
    /\ message = None
    /\ pc = "idle"
    /\ result = <<>>
    /\ delivered = <<>>
    /\ emitted = <<>>
    /\ stream = <<>>
    /\ call \in {[op |-> "match_rules", object |-> o, interfaces_added |-> a, probe |-> m] :
                    o \in {None} \cup {Some(t) : t \in TargetPaths},
                    a \in BOOLEAN,
                    m \in ProbeMessages}
    /\ outcome = [status |-> "pending"]

NextMatch == BuildRules \/ MatchProbe

SpecMatch == InitMatch /\ [][NextMatch]_vars

----------------------------------------------------------------------------
(* Properties of the subscription filters (SpecMatch).                     *)

RulesBuilt == call.op = "match_rules" /\ outcome.status \in {"built", "matched"}
ProbeMatched == call.op = "match_rules" /\ outcome.status = "matched"

IsPropertiesChangedRule(rule) ==
    /\ rule.msg_type = Some("signal")
    /\ rule.interface = Some(PROPERTIES_INTERFACE)
    /\ rule.member = Some(PROPERTIES_CHANGED)
IsInterfacesAddedRule(rule) ==
    /\ rule.msg_type = Some("signal")
    /\ rule.interface = Some(OBJECT_MANAGER_INTERFACE)
    /\ rule.member = Some(INTERFACES_ADDED)

\* The probe is a PropertiesChanged / an InterfacesAdded signal.
ProbeIsPropertiesChanged ==
    /\ call.probe.msg_type = "signal"
    /\ call.probe.interface = Some(PROPERTIES_INTERFACE)
    /\ call.probe.member = Some(PROPERTIES_CHANGED)
ProbeIsInterfacesAdded ==
    /\ call.probe.msg_type = "signal"
    /\ call.probe.interface = Some(OBJECT_MANAGER_INTERFACE)
    /\ call.probe.member = Some(INTERFACES_ADDED)

\* The probe comes from the daemon: it names org.bluez as its sender, or it
\* was built locally and names no sender (the bus stamps the sender on
\* every message it routes).
ProbeFromDaemon == call.probe.sender \in {None, Some(BUS_NAME)}

\* The probe matches at least one of the built filters.
AnyMatched == \E i \in 1..Len(outcome.rules) : outcome.matched[i]

\* `path` is `target` or lies in the tree of objects below it.
InTreeOf(target, path) ==
    Len(target) <= Len(path) /\ SubSeq(path, 1, Len(target)) = target

\* C11: match_rules returns, in order, one InterfacesAdded filter if and only
\* if interfaces_added is true, then exactly one PropertiesChanged filter,
\* which is a namespace match; so two filters when the flag is true and one
\* otherwise, with or without a target.
C11_FiltersBuilt ==
    RulesBuilt =>
        LET rules == outcome.rules
            n == Len(rules)
        IN  /\ n = (IF call.interfaces_added THEN 2 ELSE 1)
            /\ IsPropertiesChangedRule(rules[n])
            /\ rules[n].path_is_namespace
            /\ rules[n].path = call.object
            /\ Cardinality({i \in 1..n : IsPropertiesChangedRule(rules[i])}) = 1
            /\ call.interfaces_added => IsInterfacesAddedRule(rules[1])
            /\ Cardinality({i \in 1..n : IsInterfacesAddedRule(rules[i])})
                 = (IF call.interfaces_added THEN 1 ELSE 0)

\* Filters were built for a target without InterfacesAdded: a single filter.
C11_Witness ==
    /\ RulesBuilt
    /\ IsSome(call.object)
    /\ ~call.interfaces_added
    /\ Len(outcome.rules) = 1

\* C12: with a target T and InterfacesAdded disabled, a PropertiesChanged
\* signal of the daemon matches the built filter if and only if its path is T
\* or lies in the tree below T; an ancestor of T and a sibling whose path only
\* shares a string prefix with T do not match, a child of T does.
C12_TargetTreeOnly ==
    (ProbeMatched /\ IsSome(call.object) /\ ~call.interfaces_added
        /\ ProbeIsPropertiesChanged /\ ProbeFromDaemon)
    => (AnyMatched <=>
            /\ IsSome(call.probe.path)
            /\ InTreeOf(Unwrap(call.object), Unwrap(call.probe.path)))

\* A sibling of the target device whose path begins with the characters of
\* the target's path was tried and did not match.
C12_Witness ==
    /\ ProbeMatched
    /\ call.object = Some(DevicePath)
    /\ ~call.interfaces_added
    /\ ProbeIsPropertiesChanged /\ ProbeFromDaemon
    /\ call.probe.path = Some(DeviceSiblingPath)
    /\ ~AnyMatched

C14_InterfacesAddedByFlagOnly ==
    (ProbeMatched /\ ProbeIsInterfacesAdded /\ ProbeFromDaemon)
    => (AnyMatched <=> call.interfaces_added)

\* An InterfacesAdded signal at the root, outside the target device's tree,
\* matched the filters built for that device.
C14_Witness ==
    /\ ProbeMatched
    /\ call.object = Some(DevicePath)
    /\ call.interfaces_added
    /\ ProbeIsInterfacesAdded /\ ProbeFromDaemon
    /\ call.probe.path = Some(RootPath)
    /\ AnyMatched

----------------------------------------------------------------------------
(* Identifiers as strings: CharacteristicId::new, service, Display and     *)
(* to_string (characteristic.rs).  Here an object path is its text.        *)

\* The longest text drawn from the alphabet below.
MaxText == 4

\* A path separator, two characters a path element may hold and one it may
\* not.
Alphabet == {"/", "x", "y", "-"}

\* The characters of a path element: [A-Za-z0-9_].
ElementChars ==
    {"A", "B", "C", "D", "E", "F", "G", "H", "I", "J", "K", "L", "M",
     "N", "O", "P", "Q", "R", "S", "T", "U", "V", "W", "X", "Y", "Z",
     "a", "b", "c", "d", "e", "f", "g", "h", "i", "j", "k", "l", "m",
     "n", "o", "p", "q", "r", "s", "t", "u", "v", "w", "x", "y", "z",
     "0", "1", "2", "3", "4", "5", "6", "7", "8", "9", "_"}

RECURSIVE TextsOfLen(_)
TextsOfLen(n) ==
    IF n = 0 THEN {<<>>}
    ELSE {Append(t, c) : t \in TextsOfLen(n - 1), c \in Alphabet}
TextsUpTo(n) == UNION {TextsOfLen(k) : k \in 0..n}

ORG_BLUEZ_PREFIX == <<"/", "o", "r", "g", "/", "b", "l", "u", "e", "z", "/">>

\* The strings an identifier is made from: every text over the alphabet, the
\* object paths of the bus, and texts that begin with "/org/bluez/".
ObjectPathTexts ==
    TextsUpTo(MaxText)
    \cup {PathText(p) : p \in ProbePaths}
    \cup {ORG_BLUEZ_PREFIX \o t : t \in TextsUpTo(MaxText - 1)}

\* Path::new succeeds on a valid object path: it begins with '/', its
\* elements are non-empty runs of [A-Za-z0-9_] separated by single '/', and
\* only the root ends with '/'.
Path_is_valid(s) ==
    /\ Len(s) >= 1
    /\ s[1] = "/"
    /\ \A i \in 1..Len(s) : s[i] = "/" \/ s[i] \in ElementChars
    /\ \A i \in 1..(Len(s) - 1) : ~(s[i] = "/" /\ s[i + 1] = "/")
    /\ Len(s) > 1 => s[Len(s)] # "/"
Path_new(s) == IF Path_is_valid(s) THEN Some(s) ELSE None

\* A call that returns a value, and a call that panics.
Value(v) == [panic |-> FALSE, value |-> v]
Panic == [panic |-> TRUE]

\* impl From<String> for Path: Path::new(s).unwrap()
Path_from(s) == IF IsSome(Path_new(s)) THEN Value(Unwrap(Path_new(s))) ELSE Panic

ServiceId(object_path) == [object_path |-> object_path]

\* CharacteristicId::new: object_path.to_owned().into()
CharacteristicId_new(object_path) ==
    LET path == Path_from(object_path)
    IN  IF path.panic THEN Panic ELSE Value(CharacteristicId(path.value))

\* ServiceId::new, like CharacteristicId::new.
ServiceId_new(object_path) ==
    LET path == Path_from(object_path)
    IN  IF path.panic THEN Panic ELSE Value(ServiceId(path.value))

\* str::rfind(c): the 0-based index of the last occurrence.
rfind(s, c) ==
    LET hits == {i \in 1..Len(s) : s[i] = c}
    IN  IF hits = {} THEN None
        ELSE Some((CHOOSE i \in hits : \A j \in hits : j <= i) - 1)

\* str::find(c): the 0-based index of the first occurrence.
find(s, c) ==
    LET hits == {i \in 1..Len(s) : s[i] = c}
    IN  IF hits = {} THEN None
        ELSE Some((CHOOSE i \in hits : \A j \in hits : i <= j) - 1)

\* str::strip_prefix
strip_prefix(s, prefix) ==
    IF starts_with(s, prefix)
    THEN Some(SubSeq(s, Len(prefix) + 1, Len(s)))
    ELSE None

\* Faulty variant of service: the path is cut at its first '/'.
CharacteristicId_service_first_slash(id) ==
    LET index == find(id.object_path, "/")
    IN  IF index = None THEN Panic
        ELSE ServiceId_new(Slice(id.object_path, 0, Unwrap(index)))

\* Faulty variant of service: the path is cut after its last '/'.
CharacteristicId_service_keep_separator(id) ==
    LET index == rfind(id.object_path, "/")
    IN  IF index = None THEN Panic
        ELSE ServiceId_new(Slice(id.object_path, 0, Unwrap(index) + 1))

\* CharacteristicId::service: rfind('/').expect(..), then
\* ServiceId::new(&object_path[0..index]).
CharacteristicId_service(id) ==
    LET index == rfind(id.object_path, "/")
    IN  IF index = None THEN Panic
        ELSE ServiceId_new(Slice(id.object_path, 0, Unwrap(index)))

\* impl Display for CharacteristicId: what fmt writes, or fmt::Error.
CharacteristicId_fmt(id) ==
    LET stripped == strip_prefix(id.object_path, ORG_BLUEZ_PREFIX)
    IN  IF stripped = None
        THEN [ok |-> FALSE]
        ELSE [ok |-> TRUE, written |-> Unwrap(stripped)]

\* ToString::to_string: panics when Display::fmt returns an error.
CharacteristicId_to_string(id) ==
    LET r == CharacteristicId_fmt(id)
    IN  IF r.ok THEN Value(r.written) ELSE Panic

\* The identifier is constructed from the string; an invalid path panics.
New ==
    /\ call.op \in {"service", "fmt", "to_string"}
    /\ outcome.status = "pending"
    /\ LET r == CharacteristicId_new(call.object_path)
       IN  outcome' = IF r.panic
                      THEN [status |-> "panicked", in |-> "new"]
                      ELSE [status |-> "constructed", id |-> r.value]
    /\ UNCHANGED <<message, pc, result, delivered, emitted, stream, call>>

Service ==
    /\ call.op = "service"
    /\ outcome.status = "constructed"
    /\ LET r == CharacteristicId_service(outcome.id)
       IN  outcome' = IF r.panic
                      THEN [status |-> "panicked", in |-> "service", id |-> outcome.id]
                      ELSE [status |-> "returned", id |-> outcome.id, value |-> r.value]
    /\ UNCHANGED <<message, pc, result, delivered, emitted, stream, call>>

\* Display::fmt called by a formatter that receives its Result.
Fmt ==
    /\ call.op = "fmt"
    /\ outcome.status = "constructed"
    /\ LET r == CharacteristicId_fmt(outcome.id)
       IN  outcome' = IF r.ok
                      THEN [status |-> "returned", id |-> outcome.id, value |-> r.written]
                      ELSE [status |-> "error", id |-> outcome.id]
    /\ UNCHANGED <<message, pc, result, delivered, emitted, stream, call>>

To_string ==
    /\ call.op = "to_string"
    /\ outcome.status = "constructed"
    /\ LET r == CharacteristicId_to_string(outcome.id)
       IN  outcome' = IF r.panic
                      THEN [status |-> "panicked", in |-> "to_string", id |-> outcome.id]
                      ELSE [status |-> "returned", id |-> outcome.id, value |-> r.value]
    /\ UNCHANGED <<message, pc, result, delivered, emitted, stream, call>>

InitPath ==
    /\ message = None
    /\ pc = "idle"
    /\ result = <<>>
    /\ delivered = <<>>
    /\ emitted = <<>>
    /\ stream = <<>>
    /\ call \in {[op |-> o, object_path |-> t] :
                    o \in {"service", "fmt", "to_string"}, t \in ObjectPathTexts}
    /\ outcome = [status |-> "pending"]

NextPath == New \/ Service \/ Fmt \/ To_string

SpecPath == InitPath /\ [][NextPath]_vars

----------------------------------------------------------------------------
(* Properties of the identifiers (SpecPath).                               *)

\* The call of `op` on a constructed identifier has finished.
Finished(op) ==
    /\ call.op = op
    /\ outcome.status \in {"returned", "error", "panicked"}
    /\ outcome.status = "panicked" => outcome.in = op

\* The elements of a valid object path, each as its text.
RECURSIVE SplitPath(_)
SplitPath(s) ==
    IF Len(s) <= 1 THEN <<>>
    ELSE LET rest == Tail(s)
             stop == IF IsSome(find(rest, "/")) THEN Unwrap(find(rest, "/")) ELSE Len(rest)
         IN  <<SubSeq(rest, 1, stop)>> \o SplitPath(SubSeq(rest, stop + 1, Len(rest)))

\* parent + '/' + segment
Child(parent, segment) == parent \o <<"/">> \o segment

\* The path whose elements are the given texts, built child by child.
RECURSIVE PathOfElements(_)
PathOfElements(elements) ==
    IF elements = <<>> THEN <<>>
    ELSE Child(PathOfElements(SubSeq(elements, 1, Len(elements) - 1)),
               elements[Len(elements)])

\* C15: for every valid characteristic path P (a valid object path of at
\* least two elements), CharacteristicId(P).service() is the ServiceId whose
\* path is P without its final element and the '/' before it.
C15_ServiceIsTruncation ==
    (Finished("service") /\ Len(SplitPath(outcome.id.object_path)) >= 2)
    => LET elements == SplitPath(outcome.id.object_path)
       IN  /\ outcome.status = "returned"
           /\ outcome.value
                = ServiceId(PathOfElements(SubSeq(elements, 1, Len(elements) - 1)))

\* service() was called on the characteristic of the tests and returned its
\* service.
C15_Witness ==
    /\ Finished("service")
    /\ outcome.id.object_path = PathText(CharacteristicPath)
    /\ outcome.status = "returned"
    /\ outcome.value = ServiceId(PathText(ServicePath))

\* C16: child construction and parent derivation are mutually inverse: for
\* every parent path Q and non-empty segment s without '/', the parent of
\* Q + '/' + s is Q; and for every path P that has a parent, the parent of P
\* followed by '/' and the last segment of P is P.
C16_ParentChildInverse ==
    Finished("service") =>
        LET P == outcome.id.object_path
            elements == SplitPath(P)
        IN  /\ \A k \in 2..Len(P) :
                 LET Q == SubSeq(P, 1, k - 1)
                     seg == SubSeq(P, k + 1, Len(P))
                 IN  (/\ P = Child(Q, seg)
                      /\ Path_is_valid(Q)
                      /\ seg # <<>>
                      /\ \A i \in 1..Len(seg) : seg[i] # "/")
                     => /\ outcome.status = "returned"
                        /\ outcome.value.object_path = Q
            /\ outcome.status = "returned"
                 => /\ elements # <<>>
                    /\ Child(outcome.value.object_path, elements[Len(elements)]) = P

\* The parent of a two-element path over the alphabet was derived.
C16_Witness ==
    /\ Finished("service")
    /\ outcome.id.object_path = <<"/", "x", "/", "y">>
    /\ outcome.status = "returned"
    /\ outcome.value.object_path = <<"/", "x">>

\* C17: the display form of a CharacteristicId is its path without the
\* leading "/org/bluez/" when the path starts with it; when it does not,
\* producing the display form, through fmt or through to_string, ends with an
\* error marker and neither panics nor prints the path unstripped.
C17_DisplayFailsGracefully ==
    (Finished("fmt") \/ Finished("to_string")) =>
        LET P == outcome.id.object_path
        IN  IF starts_with(P, ORG_BLUEZ_PREFIX)
            THEN /\ outcome.status = "returned"
                 /\ ORG_BLUEZ_PREFIX \o outcome.value = P
            ELSE outcome.status = "error"

\* to_string() was called on an identifier outside /org/bluez/ and panicked.
C17_ToStringPanics ==
    /\ Finished("to_string")
    /\ outcome.id.object_path = PathText(ForeignPath)
    /\ outcome.status = "panicked"

\* C18: service() panics only on a path without a separator: for every
\* identifier whose path contains at least one '/', "/x" included, it returns
\* a ServiceId.
C18_ServicePanicsOnlyWithoutSeparator ==
    (Finished("service") /\ IsSome(find(outcome.id.object_path, "/")))
    => outcome.status = "returned"

\* service() was called on the identifier of "/x" and panicked.
C18_ServicePanicsOnSingleSegment ==
    /\ Finished("service")
    /\ outcome.id.object_path = <<"/", "x">>
    /\ outcome.status = "panicked"

----------------------------------------------------------------------------
(* CharacteristicFlags and its parser, TryFrom<&[String]>                  *)
(* (characteristic.rs).  A flag set is the u16 of its bits.                *)

\* The longest sequence of names parsed.
MaxFlags == 2

BROADCAST == 1
READ == 2
WRITE_WITHOUT_RESPONSE == 4
WRITE == 8
NOTIFY == 16
INDICATE == 32
SIGNED_WRITE == 64
EXTENDED_PROPERTIES == 128
RELIABLE_WRITE == 256
WRITABLE_AUXILIARIES == 512
ENCRYPT_READ == 1024
ENCRYPT_WRITE == 2048
ENCRYPT_AUTHENTICATED_READ == 4096
ENCRYPT_AUTHENTICATED_WRITE == 8192
AUTHORIZE == 16384

\* Self::empty()
CharacteristicFlags_empty == 0

\* The names the parser is given: the fifteen it recognizes and some it does
\* not (the tests' "invalid flag", a recognized name in upper case, the empty
\* string).
RecognizedNames ==
    {"broadcast",
     "read",
     "write-without-response",
     "write",
     "notify",
     "indicate",
     "authenticated-signed-writes",
     "extended-properties",
     "reliable-write",
     "writable-auxiliaries",
     "encrypt-read",
     "encrypt-write",
     "encrypt-authenticated-read",
     "encrypt-authenticated-write",
     "authorize"}
UnrecognizedNames == {"bogus", "invalid flag", "READ", ""}
FlagStrings == RecognizedNames \cup UnrecognizedNames

RECURSIVE SeqsOfLen(_, _)
SeqsOfLen(S, n) ==
    IF n = 0 THEN {<<>>}
    ELSE {Append(q, x) : q \in SeqsOfLen(S, n - 1), x \in S}
SeqsUpTo(S, n) == UNION {SeqsOfLen(S, k) : k \in 0..n}

\* a | b on u16
RECURSIVE BitOr(_, _)
BitOr(a, b) ==
    IF a = 0 THEN b
    ELSE IF b = 0 THEN a
    ELSE (IF a % 2 = 1 \/ b % 2 = 1 THEN 1 ELSE 0) + 2 * BitOr(a \div 2, b \div 2)

\* flags.insert(flag)
insert(flags, flag) == BitOr(flags, flag)

\* Faulty variant of the match: the name "READ" is accepted as well.
flag_of_upper_case_read(flag_string) ==
    CASE flag_string = "broadcast" -> Some(BROADCAST)
      [] flag_string = "read" -> Some(READ)
      [] flag_string = "write-without-response" -> Some(WRITE_WITHOUT_RESPONSE)
      [] flag_string = "write" -> Some(WRITE)
      [] flag_string = "notify" -> Some(NOTIFY)
      [] flag_string = "indicate" -> Some(INDICATE)
      [] flag_string = "authenticated-signed-writes" -> Some(SIGNED_WRITE)
      [] flag_string = "extended-properties" -> Some(EXTENDED_PROPERTIES)
      [] flag_string = "reliable-write" -> Some(RELIABLE_WRITE)
      [] flag_string = "writable-auxiliaries" -> Some(WRITABLE_AUXILIARIES)
      [] flag_string = "encrypt-read" -> Some(ENCRYPT_READ)
      [] flag_string = "encrypt-write" -> Some(ENCRYPT_WRITE)
      [] flag_string = "encrypt-authenticated-read" -> Some(ENCRYPT_AUTHENTICATED_READ)
      [] flag_string = "encrypt-authenticated-write" -> Some(ENCRYPT_AUTHENTICATED_WRITE)
      [] flag_string = "authorize" -> Some(AUTHORIZE)
      [] flag_string = "READ" -> Some(READ)
      [] OTHER -> None

\* The match on flag_string.as_ref(): the flag of a name, None for `_`.
flag_of(flag_string) ==
    CASE flag_string = "broadcast" -> Some(BROADCAST)
      [] flag_string = "read" -> Some(READ)
      [] flag_string = "write-without-response" -> Some(WRITE_WITHOUT_RESPONSE)
      [] flag_string = "write" -> Some(WRITE)
      [] flag_string = "notify" -> Some(NOTIFY)
      [] flag_string = "indicate" -> Some(INDICATE)
      [] flag_string = "authenticated-signed-writes" -> Some(SIGNED_WRITE)
      [] flag_string = "extended-properties" -> Some(EXTENDED_PROPERTIES)
      [] flag_string = "reliable-write" -> Some(RELIABLE_WRITE)
      [] flag_string = "writable-auxiliaries" -> Some(WRITABLE_AUXILIARIES)
      [] flag_string = "encrypt-read" -> Some(ENCRYPT_READ)
      [] flag_string = "encrypt-write" -> Some(ENCRYPT_WRITE)
      [] flag_string = "encrypt-authenticated-read" -> Some(ENCRYPT_AUTHENTICATED_READ)
      [] flag_string = "encrypt-authenticated-write" -> Some(ENCRYPT_AUTHENTICATED_WRITE)
      [] flag_string = "authorize" -> Some(AUTHORIZE)
      [] OTHER -> None

FlagParseError(string) == [kind |-> "FlagParseError", string |-> string]
Ok(v) == [ok |-> TRUE, value |-> v]
Err(e) == [ok |-> FALSE, error |-> e]

\* Faulty variant of the loop body: the flag replaces the set.
flag_step_replace(flags, flag_string) ==
    LET flag == flag_of(flag_string)
    IN  IF flag = None
        THEN Err(FlagParseError(flag_string))
        ELSE Ok(Unwrap(flag))

\* Faulty variant of the loop body: an unrecognized name is skipped.
flag_step_skip_unknown(flags, flag_string) ==
    LET flag == flag_of(flag_string)
    IN  IF flag = None
        THEN Ok(flags)
        ELSE Ok(insert(flags, Unwrap(flag)))

\* One iteration of the loop: the set after the name, or the early return.
flag_step(flags, flag_string) ==
    LET flag == flag_of(flag_string)
    IN  IF flag = None
        THEN Err(FlagParseError(flag_string))
        ELSE Ok(insert(flags, Unwrap(flag)))

\* for flag_string in value { .. } Ok(flags); `slice` is the argument `value`.
RECURSIVE try_from_loop(_, _)
try_from_loop(slice, flags) ==
    IF slice = <<>> THEN Ok(flags)
    ELSE LET step == flag_step(flags, Head(slice))
         IN  IF step.ok THEN try_from_loop(Tail(slice), step.value) ELSE step

\* CharacteristicFlags::try_from(value)
CharacteristicFlags_try_from(slice) ==
    try_from_loop(slice, CharacteristicFlags_empty)

TryFrom ==
    /\ call.op = "try_from"
    /\ outcome.status = "pending"
    /\ outcome' = [status |-> "returned",
                   result |-> CharacteristicFlags_try_from(call.value)]
    /\ UNCHANGED <<message, pc, result, delivered, emitted, stream, call>>

InitFlags ==
    /\ message = None
    /\ pc = "idle"
    /\ result = <<>>
    /\ delivered = <<>>
    /\ emitted = <<>>
    /\ stream = <<>>
    /\ call \in {[op |-> "try_from", value |-> v] : v \in SeqsUpTo(FlagStrings, MaxFlags)}
    /\ outcome = [status |-> "pending"]

NextFlags == TryFrom

SpecFlags == InitFlags /\ [][NextFlags]_vars

----------------------------------------------------------------------------
(* Properties of the flag parser (SpecFlags).                              *)

Parsed == call.op = "try_from" /\ outcome.status = "returned"

\* The names that occur in the parsed sequence.
NamesIn(slice) == {slice[i] : i \in 1..Len(slice)}

\* Bit `flag` (a power of two) is set in `flags`.
contains(flags, flag) == (flags \div flag) % 2 = 1

\* The sum of a set of numbers.
RECURSIVE SumOf(_)
SumOf(S) ==
    IF S = {} THEN 0
    ELSE LET x == CHOOSE y \in S : TRUE IN x + SumOf(S \ {x})

\* C19: parsing a sequence of names that are all recognized succeeds with
\* exactly the union of their bits: a bit is set if and only if its name
\* occurs, whatever the order and the repetitions; ["read", "encrypt-write"]
\* gives READ | ENCRYPT_WRITE and the empty sequence the empty set.
C19_UnionOfRecognized ==
    (Parsed /\ NamesIn(call.value) \subseteq RecognizedNames)
    => /\ outcome.result.ok
       /\ \A name \in RecognizedNames :
              contains(outcome.result.value, Unwrap(flag_of(name)))
                  <=> name \in NamesIn(call.value)
       /\ outcome.result.value
              = SumOf({Unwrap(flag_of(name)) : name \in NamesIn(call.value)})
       /\ call.value = <<>> => outcome.result.value = CharacteristicFlags_empty
       /\ NamesIn(call.value) = {"read", "encrypt-write"}
              => outcome.result.value = READ + ENCRYPT_WRITE

\* ["encrypt-write", "read"] was parsed into READ | ENCRYPT_WRITE.
C19_Witness ==
    /\ Parsed
    /\ call.value = <<"encrypt-write", "read">>
    /\ outcome.result = Ok(READ + ENCRYPT_WRITE)

\* The first name of the sequence that the parser does not recognize.
RECURSIVE FirstUnrecognized(_)
FirstUnrecognized(slice) ==
    IF Head(slice) \notin RecognizedNames THEN Head(slice)
    ELSE FirstUnrecognized(Tail(slice))

\* C20: parsing a sequence with at least one unrecognized name fails with the
\* unknown-flag error that carries the text of the first unrecognized name,
\* and returns no flag set, whatever recognized names precede or follow.
C20_FirstUnrecognizedReported ==
    (Parsed /\ ~(NamesIn(call.value) \subseteq RecognizedNames))
    => outcome.result = Err(FlagParseError(FirstUnrecognized(call.value)))

\* ["read", "invalid flag"] was parsed and failed on "invalid flag".
C20_Witness ==
    /\ Parsed
    /\ call.value = <<"read", "invalid flag">>
    /\ outcome.result = Err(FlagParseError("invalid flag"))

\* The number of bits set in a flag set.
RECURSIVE PopCount(_)
PopCount(flags) ==
    IF flags = 0 THEN 0 ELSE (flags % 2) + PopCount(flags \div 2)

\* C21: the flag vocabulary is a bijection between the fifteen exact names and
\* fifteen pairwise distinct single bits of the 16-bit set: each name sets
\* exactly one bit, no two names share a bit, and every other string, a
\* different letter case included, is rejected.
C21_VocabularyBijection ==
    Parsed =>
        /\ Cardinality(RecognizedNames) = 15
        /\ outcome.result.ok <=> NamesIn(call.value) \subseteq RecognizedNames
        /\ outcome.result.ok =>
              /\ outcome.result.value \in 0..65535
              /\ PopCount(outcome.result.value) = Cardinality(NamesIn(call.value))

\* Two different names were parsed into a set of two bits.
C21_Witness ==
    /\ Parsed
    /\ call.value = <<"write", "write-without-response">>
    /\ outcome.result.ok
    /\ PopCount(outcome.result.value) = 2

----------------------------------------------------------------------------
(* Modalias strings (modalias.rs): the tokenizer RawModalias::from_str.    *)
(* Strings are sequences of characters; a HashMap<String, String> is the   *)
(* set of its <<key, value>> entries, at most one per key.                 *)

\* The longest string over RawAlphabet handed to the tokenizer.
MaxRaw == 5

\* char::is_ascii_lowercase
LowercaseLetters ==
    {"a", "b", "c", "d", "e", "f", "g", "h", "i", "j", "k", "l", "m",
     "n", "o", "p", "q", "r", "s", "t", "u", "v", "w", "x", "y", "z"}
is_ascii_lowercase(c) == c \in LowercaseLetters

\* The separator, two lowercase letters and a character that is not one.
RawAlphabet == {":", "a", "b", "1"}

RECURSIVE RawTextsOfLen(_)
RawTextsOfLen(n) ==
    IF n = 0 THEN {<<>>}
    ELSE {Append(t, c) : t \in RawTextsOfLen(n - 1), c \in RawAlphabet}

\* The strings tokenized: every string over the alphabet, and the strings of
\* the tests.
RawTexts ==
    UNION {RawTextsOfLen(k) : k \in 0..MaxRaw}
    \cup {<<"u", "s", "b", ":">>,
          <<"u", "s", "b", ":", "a", "A", "B", "1", "2", "a", "b", "0", "1">>,
          <<"u", "s", "b", ":", "v", "1", "2", "3", "4", "p", "5", "6", "7", "8", "d", "9", "0", "A", "B">>}

\* rest.find(|c| !c.is_ascii_lowercase()): 0-based index of the first match.
find_non_lowercase(s) ==
    LET hits == {i \in 1..Len(s) : ~is_ascii_lowercase(s[i])}
    IN  IF hits = {} THEN None
        ELSE Some((CHOOSE i \in hits : \A j \in hits : i <= j) - 1)

\* rest.find(|c| c.is_ascii_lowercase())
find_lowercase(s) ==
    LET hits == {i \in 1..Len(s) : is_ascii_lowercase(s[i])}
    IN  IF hits = {} THEN None
        ELSE Some((CHOOSE i \in hits : \A j \in hits : i <= j) - 1)

\* Faulty variant of split_once: the string is split at its last ':'.
split_once_last(s, c) ==
    LET index == rfind(s, c)
    IN  IF index = None THEN None
        ELSE Some(<<Slice(s, 0, Unwrap(index)),
                    Slice(s, Unwrap(index) + 1, Len(s))>>)

\* str::split_once(c): the parts before and after the first c.
split_once(s, c) ==
    LET index == find(s, c)
    IN  IF index = None THEN None
        ELSE Some(<<Slice(s, 0, Unwrap(index)),
                    Slice(s, Unwrap(index) + 1, Len(s))>>)

\* HashMap::new(), insert (an entry of the same key is replaced) and get.
HashMap_new == {}
HashMap_insert(map, key, val) ==
    {e \in map : e[1] # key} \cup {<<key, val>>}
HashMap_get(map, key) ==
    IF \E e \in map : e[1] = key
    THEN Some((CHOOSE e \in map : e[1] = key)[2])
    ELSE None

ParseModaliasError(s) == [kind |-> "ParseModaliasError", string |-> s]
RawModalias(subtype, values) == [subtype |-> subtype, values |-> values]

\* Faulty variant of the loop body: after a value the remainder is not
\* advanced past it.
tokenize_step_no_advance(rest, values) ==
    LET key_end == find_non_lowercase(rest)
    IN  IF IsSome(key_end)
        THEN LET key == Slice(rest, 0, Unwrap(key_end))
                 rest1 == Slice(rest, Unwrap(key_end), Len(rest))
                 key_start == find_lowercase(rest1)
             IN  IF IsSome(key_start)
                 THEN [values |-> HashMap_insert(values, key,
                                                 Slice(rest1, 0, Unwrap(key_start))),
                       rest |-> rest1,
                       break |-> FALSE]
                 ELSE [values |-> HashMap_insert(values, key, rest1),
                       rest |-> rest1,
                       break |-> TRUE]
        ELSE [values |-> HashMap_insert(values, rest, <<>>),
              rest |-> rest,
              break |-> TRUE]

\* One iteration of `while !rest.is_empty()`: the map and the remainder after
\* it, and whether it left the loop with `break`.
tokenize_step(rest, values) ==
    LET key_end == find_non_lowercase(rest)
    IN  IF IsSome(key_end)
        THEN LET key == Slice(rest, 0, Unwrap(key_end))
                 rest1 == Slice(rest, Unwrap(key_end), Len(rest))
                 key_start == find_lowercase(rest1)
             IN  IF IsSome(key_start)
                 THEN [values |-> HashMap_insert(values, key,
                                                 Slice(rest1, 0, Unwrap(key_start))),
                       rest |-> Slice(rest1, Unwrap(key_start), Len(rest1)),
                       break |-> FALSE]
                 ELSE [values |-> HashMap_insert(values, key, rest1),
                       rest |-> rest1,
                       break |-> TRUE]
        ELSE [values |-> HashMap_insert(values, rest, <<>>),
              rest |-> rest,
              break |-> TRUE]

\* The whole loop.
RECURSIVE tokenize_loop(_, _)
tokenize_loop(rest, values) ==
    IF rest = <<>> THEN values
    ELSE LET step == tokenize_step(rest, values)
         IN  IF step.break THEN step.values
             ELSE tokenize_loop(step.rest, step.values)

\* RawModalias::from_str
RawModalias_from_str(s) ==
    LET parts == split_once(s, ":")
    IN  IF IsSome(parts)
        THEN Ok(RawModalias(Unwrap(parts)[1],
                            tokenize_loop(Unwrap(parts)[2], HashMap_new)))
        ELSE Err(ParseModaliasError(s))

\* The tokenizer step by step: the split, then one action per iteration of
\* the loop, then the return.
SplitOnce ==
    /\ call.op = "raw_from_str"
    /\ outcome.status = "pending"
    /\ LET parts == split_once(call.s, ":")
       IN  outcome' = IF IsSome(parts)
                      THEN [status |-> "looping",
                            subtype |-> Unwrap(parts)[1],
                            rest |-> Unwrap(parts)[2],
                            values |-> HashMap_new]
                      ELSE [status |-> "returned",
                            result |-> Err(ParseModaliasError(call.s))]
    /\ UNCHANGED <<message, pc, result, delivered, emitted, stream, call>>

Iterate ==
    /\ call.op = "raw_from_str"
    /\ outcome.status = "looping"
    /\ outcome.rest # <<>>
    /\ LET step == tokenize_step(outcome.rest, outcome.values)
       IN  outcome' = IF step.break
                      THEN [status |-> "returned",
                            result |-> Ok(RawModalias(outcome.subtype, step.values))]
                      ELSE [outcome EXCEPT !.rest = step.rest,
                                           !.values = step.values]
    /\ UNCHANGED <<message, pc, result, delivered, emitted, stream, call>>

ExitLoop ==
    /\ call.op = "raw_from_str"
    /\ outcome.status = "looping"
    /\ outcome.rest = <<>>
    /\ outcome' = [status |-> "returned",
                   result |-> Ok(RawModalias(outcome.subtype, outcome.values))]
    /\ UNCHANGED <<message, pc, result, delivered, emitted, stream, call>>

InitTokenize ==
    /\ message = None
    /\ pc = "idle"
    /\ result = <<>>
    /\ delivered = <<>>
    /\ emitted = <<>>
    /\ stream = <<>>
    /\ call \in {[op |-> "raw_from_str", s |-> t] : t \in RawTexts}
    /\ outcome = [status |-> "pending"]

NextTokenize == SplitOnce \/ Iterate \/ ExitLoop

SpecTokenize == InitTokenize /\ [][NextTokenize]_vars

\* The tokenizer is a sequential function: a step that can be taken is taken.
SpecTokenizeFair == SpecTokenize /\ WF_vars(NextTokenize)

----------------------------------------------------------------------------
(* Properties of the tokenizer (SpecTokenize, SpecTokenizeFair).           *)

Tokenized == call.op = "raw_from_str" /\ outcome.status = "returned"

\* The end of the maximal run of lowercase (lower = TRUE) or non-lowercase
\* characters of b that begins at position `from`; from - 1 if it is empty.
RunEnd(b, from, lower) ==
    CHOOSE k \in (from - 1)..Len(b) :
        /\ \A i \in from..k : is_ascii_lowercase(b[i]) = lower
        /\ k < Len(b) => is_ascii_lowercase(b[k + 1]) # lower

\* The positions of b where a key begins: its first position, and every
\* lowercase letter that follows a character which is not one.
KeyStarts(b) ==
    {i \in 1..Len(b) :
        i = 1 \/ (is_ascii_lowercase(b[i]) /\ ~is_ascii_lowercase(b[i - 1]))}

\* The key that begins at position i and the value that follows it.
KeyValueAt(b, i) ==
    LET key_end == RunEnd(b, i, TRUE)
    IN  <<SubSeq(b, i, key_end),
          SubSeq(b, key_end + 1, RunEnd(b, key_end + 1, FALSE))>>

\* The map of the keys of b to their values, the last one of a repeated key.
KeyValues(b) ==
    {KeyValueAt(b, i) : i \in {j \in KeyStarts(b) :
        \A k \in KeyStarts(b) :
            k > j => KeyValueAt(b, k)[1] # KeyValueAt(b, j)[1]}}

\* C27: the tokenizer fails if and only if the input has no ':'; otherwise it
\* splits at the first ':' into subtype and body and reads the body as
\* alternating keys (maximal runs of lowercase letters) and values (the
\* following maximal run of other characters): "usb:aAB12ab01" gives
\* {a: AB12, ab: 01}, "usb:" the empty map, and a trailing key the empty value.
C27_TokenizerContract ==
    Tokenized =>
        LET s == call.s
            colons == {i \in 1..Len(s) : s[i] = ":"}
        IN  /\ outcome.result.ok <=> colons # {}
            /\ ~outcome.result.ok => outcome.result = Err(ParseModaliasError(s))
            /\ outcome.result.ok =>
                 LET first == CHOOSE i \in colons : \A j \in colons : i <= j
                     body == SubSeq(s, first + 1, Len(s))
                 IN  /\ outcome.result.value.subtype = SubSeq(s, 1, first - 1)
                     /\ outcome.result.value.values = KeyValues(body)
                     /\ (body # <<>> /\ is_ascii_lowercase(body[Len(body)]))
                          => \E e \in outcome.result.value.values : e[2] = <<>>
            /\ s = <<"u", "s", "b", ":">> => outcome.result.value.values = {}
            /\ s = <<"u", "s", "b", ":", "a", "A", "B", "1", "2", "a", "b", "0", "1">>
                 => outcome.result.value.values
                      = {<<<<"a">>, <<"A", "B", "1", "2">>>>,
                         <<<<"a", "b">>, <<"0", "1">>>>}

\* "usb:aAB12ab01" was tokenized into subtype usb and two keys.
C27_Witness ==
    /\ Tokenized
    /\ call.s = <<"u", "s", "b", ":", "a", "A", "B", "1", "2", "a", "b", "0", "1">>
    /\ outcome.result.ok
    /\ outcome.result.value.subtype = <<"u", "s", "b">>
    /\ Cardinality(outcome.result.value.values) = 2

\* C28: the tokenizer loop terminates on every input: an iteration that does
\* not leave the loop strictly shortens the remainder, and the call returns,
\* also when the body begins with a character that is not a lowercase letter
\* or ends inside a key or a value.
C28_LoopTerminates ==
    /\ [][(outcome.status = "looping" /\ outcome'.status = "looping")
            => Len(outcome'.rest) < Len(outcome.rest)]_vars
    /\ <>(outcome.status = "returned")

\* The call returned for a body that begins with an empty key and ends
\* inside a key.
C28_Witness ==
    /\ Tokenized
    /\ call.s = <<":", "1", "b", "1", "a">>
    /\ outcome.result.ok
    /\ <<<<>>, <<"1">>>> \in outcome.result.value.values

----------------------------------------------------------------------------
(* Modalias: parsing (FromStr, TryFrom<RawModalias>) and formatting        *)
(* (Display) in modalias.rs.                                               *)

\* Field values 0..MaxField are formatted, beside the values of the tests.
MaxField == 1

U16_MAX == 65535

\* char::to_digit(16)
to_digit_16(c) ==
    CASE c = "0" -> Some(0)
      [] c = "1" -> Some(1)
      [] c = "2" -> Some(2)
      [] c = "3" -> Some(3)
      [] c = "4" -> Some(4)
      [] c = "5" -> Some(5)
      [] c = "6" -> Some(6)
      [] c = "7" -> Some(7)
      [] c = "8" -> Some(8)
      [] c = "9" -> Some(9)
      [] c = "a" -> Some(10)
      [] c = "b" -> Some(11)
      [] c = "c" -> Some(12)
      [] c = "d" -> Some(13)
      [] c = "e" -> Some(14)
      [] c = "f" -> Some(15)
      [] c = "A" -> Some(10)
      [] c = "B" -> Some(11)
      [] c = "C" -> Some(12)
      [] c = "D" -> Some(13)
      [] c = "E" -> Some(14)
      [] c = "F" -> Some(15)
      [] OTHER -> None

\* The digits of u16::from_str_radix accumulated from the left; None on a
\* character that is no digit or on overflow of u16.
RECURSIVE parse_digits(_, _)
parse_digits(digits, acc) ==
    IF digits = <<>> THEN Some(acc)
    ELSE LET d == to_digit_16(Head(digits))
         IN  IF d = None THEN None
             ELSE IF acc * 16 + Unwrap(d) > U16_MAX THEN None
             ELSE parse_digits(Tail(digits), acc * 16 + Unwrap(d))

\* u16::from_str_radix(src, 16): an empty string and a lone sign are errors,
\* a leading '+' is skipped, and '-' is not a digit of an unsigned type.
u16_from_str_radix_16(src) ==
    IF src = <<>> THEN None
    ELSE IF Len(src) = 1 /\ src[1] \in {"+", "-"} THEN None
    ELSE IF src[1] = "+" THEN parse_digits(Tail(src), 0)
    ELSE parse_digits(src, 0)

Modalias(vendor_id, product_id, device_id) ==
    [vendor_id |-> vendor_id, product_id |-> product_id, device_id |-> device_id]

USB == <<"u", "s", "b">>

\* impl TryFrom<RawModalias> for Modalias; None stands for Err(()).
Modalias_try_from(raw) ==
    IF raw.subtype # USB THEN None
    ELSE LET v == HashMap_get(raw.values, <<"v">>)
             p == HashMap_get(raw.values, <<"p">>)
             d == HashMap_get(raw.values, <<"d">>)
         IN  IF v = None \/ u16_from_str_radix_16(Unwrap(v)) = None THEN None
             ELSE IF p = None \/ u16_from_str_radix_16(Unwrap(p)) = None THEN None
             ELSE IF d = None \/ u16_from_str_radix_16(Unwrap(d)) = None THEN None
             ELSE Some(Modalias(Unwrap(u16_from_str_radix_16(Unwrap(v))),
                                Unwrap(u16_from_str_radix_16(Unwrap(p))),
                                Unwrap(u16_from_str_radix_16(Unwrap(d)))))

\* impl FromStr for Modalias
Modalias_from_str(s) ==
    LET raw == RawModalias_from_str(s)
    IN  IF ~raw.ok THEN raw
        ELSE LET m == Modalias_try_from(raw.value)
             IN  IF m = None THEN Err(ParseModaliasError(s)) ELSE Ok(Unwrap(m))

UpperHexDigits == <<"0", "1", "2", "3", "4", "5", "6", "7",
                    "8", "9", "A", "B", "C", "D", "E", "F">>
LowerHexDigits == <<"0", "1", "2", "3", "4", "5", "6", "7",
                    "8", "9", "a", "b", "c", "d", "e", "f">>

\* {:04X} of a u16: four digits of the given table, most significant first.
Hex04(n, table) ==
    <<table[((n \div 4096) % 16) + 1], table[((n \div 256) % 16) + 1],
      table[((n \div 16) % 16) + 1], table[(n % 16) + 1]>>

\* Faulty variant of Display: the fields are written with {:04x}.
Modalias_fmt_lower_hex(m) ==
    USB \o <<":", "v">> \o Hex04(m.vendor_id, LowerHexDigits)
        \o <<"p">> \o Hex04(m.product_id, LowerHexDigits)
        \o <<"d">> \o Hex04(m.device_id, LowerHexDigits)

\* impl Display for Modalias: "usb:v{:04X}p{:04X}d{:04X}"
Modalias_fmt(m) ==
    USB \o <<":", "v">> \o Hex04(m.vendor_id, UpperHexDigits)
        \o <<"p">> \o Hex04(m.product_id, UpperHexDigits)
        \o <<"d">> \o Hex04(m.device_id, UpperHexDigits)

\* The values formatted: small ones, those of the tests, and values whose
\* digits are letters.
FieldValues == (0..MaxField) \cup {4660, 22136, 37035, 160, 43981, 65535}
Modaliases ==
    {Modalias(v, p, d) : v \in FieldValues, p \in FieldValues, d \in FieldValues}

\* The texts a field is given: empty, four digits in upper and in lower case,
\* signed, with a letter that is no digit, and too large for 16 bits.
ValueTexts ==
    {<<>>, <<"0", "0", "0", "0">>, <<"9", "0", "A", "B">>, <<"9", "0", "a", "b">>, <<"0", "0", "a", "0">>,
     <<"+", "1">>, <<"-", "1">>, <<"1", "2", "G", "4">>, <<"1", "0", "0", "0", "0">>}

\* The fields of a body: some of v, p, d in some order, each with a value.
FieldOrders ==
    {<<>>, <<"v">>, <<"p">>, <<"d">>,
     <<"v", "p">>, <<"p", "d">>, <<"d", "v">>,
     <<"v", "p", "d">>, <<"d", "p", "v">>, <<"p", "v", "d">>}

RECURSIVE BodiesOf(_)
BodiesOf(keys) ==
    IF keys = <<>> THEN {<<>>}
    ELSE {<<Head(keys)>> \o val \o body : val \in ValueTexts, body \in BodiesOf(Tail(keys))}

\* The strings parsed: bodies under the subtype usb, a few under other
\* subtypes, strings without ':', and every formatted value.
ModaliasTexts ==
    {USB \o <<":">> \o body : body \in UNION {BodiesOf(keys) : keys \in FieldOrders}}
    \cup {subtype \o <<":">> \o body :
            subtype \in {<<"b", "l", "a", "h">>, <<"U", "S", "B">>, <<>>},
            body \in {<<>>, <<"v", "0", "0", "0", "0", "p", "0", "0", "0", "0", "d", "0", "0", "0", "0">>, <<"v", "1", "2", "3", "4", "p", "5", "6", "7", "8", "d", "9", "0", "A", "B">>}}
    \cup {<<>>, USB, <<"u", "s", "b", "v", "0", "0", "0", "0", "p", "0", "0", "0", "0", "d", "0", "0", "0", "0">>}
    \cup {Modalias_fmt(m) : m \in Modaliases}

\* Modalias::from_str, of the given string or of a formatted value.
FromStr ==
    \/ /\ call.op = "parse"
       /\ outcome.status = "pending"
       /\ outcome' = [status |-> "parsed", result |-> Modalias_from_str(call.s)]
       /\ UNCHANGED <<message, pc, result, delivered, emitted, stream, call>>
    \/ /\ call.op = "format"
       /\ outcome.status = "formatted"
       /\ outcome' = [status |-> "done", text |-> outcome.text,
                      result |-> Modalias_from_str(outcome.text)]
       /\ UNCHANGED <<message, pc, result, delivered, emitted, stream, call>>

\* modalias.to_string(), of the given value or of a parsed one.
Format ==
    \/ /\ call.op = "format"
       /\ outcome.status = "pending"
       /\ outcome' = [status |-> "formatted", text |-> Modalias_fmt(call.modalias)]
       /\ UNCHANGED <<message, pc, result, delivered, emitted, stream, call>>
    \/ /\ call.op = "parse"
       /\ outcome.status = "parsed"
       /\ outcome.result.ok
       /\ outcome' = [status |-> "done", result |-> outcome.result,
                      text |-> Modalias_fmt(outcome.result.value)]
       /\ UNCHANGED <<message, pc, result, delivered, emitted, stream, call>>

InitModalias ==
    /\ message = None
    /\ pc = "idle"
    /\ result = <<>>
    /\ delivered = <<>>
    /\ emitted = <<>>
    /\ stream = <<>>
    /\ call \in {[op |-> "parse", s |-> t] : t \in ModaliasTexts}
                \cup {[op |-> "format", modalias |-> m] : m \in Modaliases}
    /\ outcome = [status |-> "pending"]

NextModalias == FromStr \/ Format

SpecModalias == InitModalias /\ [][NextModalias]_vars

----------------------------------------------------------------------------
(* Properties of Modalias (SpecModalias).                                  *)

\* Modalias::from_str has returned for the string of the call.
ModaliasParsed ==
    call.op = "parse" /\ outcome.status \in {"parsed", "done"}

\* A character that is a hexadecimal digit, in either case.
IsHexDigit(c) ==
    c \in {"0", "1", "2", "3", "4", "5", "6", "7", "8", "9",
           "a", "b", "c", "d", "e", "f", "A", "B", "C", "D", "E", "F"}

\* The number written by a string of hexadecimal digits.
RECURSIVE HexNumber(_)
HexNumber(digits) ==
    IF digits = <<>> THEN 0
    ELSE 16 * HexNumber(SubSeq(digits, 1, Len(digits) - 1))
         + Unwrap(to_digit_16(digits[Len(digits)]))

\* A valid 2-byte hexadecimal value: hexadecimal digits, at least one, that
\* write a number of 16 bits.
IsHex16(text) ==
    /\ text # <<>>
    /\ \A i \in 1..Len(text) : IsHexDigit(text[i])
    /\ HexNumber(text) <= U16_MAX

\* C22: parsing succeeds only if the subtype is exactly "usb" and each of the
\* keys v, p, d is present with a valid 2-byte hexadecimal value; another
\* subtype, a missing key, or a value that is empty, signed, not hexadecimal
\* or too large for 16 bits makes the parse fail with a parse error.
C22_ParseOnlyValidUsb ==
    ModaliasParsed =>
        LET raw == RawModalias_from_str(call.s)
            valid ==
               /\ raw.ok
               /\ raw.value.subtype = USB
               /\ \A key \in {<<"v">>, <<"p">>, <<"d">>} :
                      /\ IsSome(HashMap_get(raw.value.values, key))
                      /\ IsHex16(Unwrap(HashMap_get(raw.value.values, key)))
        IN  ~valid => outcome.result = Err(ParseModaliasError(call.s))

\* "usb:v+1p0000d0000" was parsed successfully, as vendor 1.
C22_SignedValueAccepted ==
    /\ ModaliasParsed
    /\ call.s = <<"u", "s", "b", ":", "v", "+", "1", "p", "0", "0", "0", "0", "d", "0", "0", "0", "0">>
    /\ outcome.result = Ok(Modalias(1, 0, 0))

\* The string has the shape usb:v<4hex>p<4hex>d<4hex>, in any letter case of
\* its digits.
HasModaliasShape(s) ==
    /\ Len(s) = 19
    /\ SubSeq(s, 1, 5) = USB \o <<":", "v">>
    /\ s[10] = "p"
    /\ s[15] = "d"
    /\ \A i \in (6..9) \cup (11..14) \cup (16..19) : IsHexDigit(s[i])

\* C23: input is case-insensitive and output canonical: every string of the
\* shape usb:v<4hex>p<4hex>d<4hex> parses, whatever the case of its digits,
\* to the values its fields write, and formatting the parsed value gives
\* "usb" and four uppercase hexadecimal digits per field.
C23_CaseInsensitiveInput ==
    (ModaliasParsed /\ HasModaliasShape(call.s)) =>
        /\ outcome.result.ok
        /\ outcome.result.value
             = Modalias(HexNumber(SubSeq(call.s, 6, 9)),
                        HexNumber(SubSeq(call.s, 11, 14)),
                        HexNumber(SubSeq(call.s, 16, 19)))
        /\ outcome.status = "done"
             => outcome.text = Modalias_fmt(outcome.result.value)

\* "usb:v90abp0000d0000", with lowercase digits, was rejected.
C23_LowercaseDigitsRejected ==
    /\ ModaliasParsed
    /\ call.s = <<"u", "s", "b", ":", "v", "9", "0", "a", "b", "p", "0", "0", "0", "0", "d", "0", "0", "0", "0">>
    /\ ~outcome.result.ok

\* The string is canonical: of the shape above, with no lowercase digit.
IsCanonical(s) ==
    /\ HasModaliasShape(s)
    /\ \A i \in (6..9) \cup (11..14) \cup (16..19) : ~is_ascii_lowercase(s[i])

\* C24: Modalias round-trips on canonical text in both directions: parsing
\* the formatted text of any value m succeeds and gives m, and formatting the
\* parsed value of a canonical string usb:vXXXXpXXXXdXXXX gives the string.
C24_RoundTrip ==
    /\ (call.op = "format" /\ outcome.status \in {"formatted", "done"})
         => IsCanonical(outcome.text)
    /\ (call.op = "format" /\ outcome.status = "done")
         => outcome.result = Ok(call.modalias)
    /\ (ModaliasParsed /\ IsCanonical(call.s))
         => /\ outcome.result.ok
            /\ outcome.status = "done" => outcome.text = call.s

\* The value 1234:5678:90AB of the tests was formatted and parsed back.
C24_Witness ==
    /\ call.op = "format"
    /\ call.modalias = Modalias(4660, 22136, 37035)
    /\ outcome.status = "done"
    /\ outcome.text = <<"u", "s", "b", ":", "v", "1", "2", "3", "4", "p", "5", "6", "7", "8", "d", "9", "0", "A", "B">>
    /\ outcome.result = Ok(call.modalias)

----------------------------------------------------------------------------
(* CharacteristicInfo::from_properties (characteristic.rs).                *)

U16(n) == [type |-> "u16", val |-> n]

\* OrgBluezGattCharacteristic1Properties: uuid(), flags(), mtu()
uuid(bag) == prop_cast(bag, "UUID", "String")
flags(bag) == prop_cast(bag, "Flags", "Vec<String>")
mtu(bag) == prop_cast(bag, "MTU", "u16")

\* The values a characteristic's bag may hold under UUID, Flags and MTU: of
\* the documented type (well-formed or not) and of another type.
InfoValuesOf(key) ==
    CASE key = "UUID" ->
            {Str("11223344-0000-1000-8000-00805f9b34fb"), Str("not-a-uuid"), U32(1)}
      [] key = "Flags" ->
            {Strings(<<>>), Strings(<<"read", "encrypt-write">>),
             Strings(<<"read", "bogus">>), Str("read")}
      [] key = "MTU" -> {U16(517), U32(517)}

\* The bags: each of the three keys absent or present with one of its values,
\* possibly beside the Value property.
InfoBags ==
    {u \o f \o m \o v :
        u \in {<<>>} \cup {<< <<"UUID", x>> >> : x \in InfoValuesOf("UUID")},
        f \in {<<>>} \cup {<< <<"Flags", x>> >> : x \in InfoValuesOf("Flags")},
        m \in {<<>>} \cup {<< <<"MTU", x>> >> : x \in InfoValuesOf("MTU")},
        v \in {<<>>, << <<"Value", Bytes(<<1, 2, 3>>)>> >>}}

RequiredPropertyMissing(name) == [kind |-> "RequiredPropertyMissing", name |-> name]
\* The error Uuid::parse_str returns, converted by `?`.
UuidParseError == [kind |-> "UuidParseError"]

CharacteristicInfo(id, uuid_value, flag_set, mtu_value) ==
    [id |-> id, uuid |-> uuid_value, flags |-> flag_set, mtu |-> mtu_value]

\* Faulty variant of from_properties: Flags is looked up before UUID.
from_properties_flags_first(id, characteristic_properties) ==
    LET uuid_string == uuid(characteristic_properties)
        flag_strings == flags(characteristic_properties)
    IN  IF flag_strings = None THEN Err(RequiredPropertyMissing("Flags"))
        ELSE IF uuid_string = None THEN Err(RequiredPropertyMissing("UUID"))
        ELSE IF Uuid_parse_str(Unwrap(uuid_string)) = None THEN Err(UuidParseError)
        ELSE LET parsed == CharacteristicFlags_try_from(Unwrap(flag_strings))
             IN  IF ~parsed.ok THEN parsed
                 ELSE Ok(CharacteristicInfo(id,
                                            Unwrap(Uuid_parse_str(Unwrap(uuid_string))),
                                            parsed.value,
                                            mtu(characteristic_properties)))

\* CharacteristicInfo::from_properties
from_properties(id, characteristic_properties) ==
    LET uuid_string == uuid(characteristic_properties)
        flag_strings == flags(characteristic_properties)
    IN  IF uuid_string = None THEN Err(RequiredPropertyMissing("UUID"))
        ELSE IF Uuid_parse_str(Unwrap(uuid_string)) = None THEN Err(UuidParseError)
        ELSE IF flag_strings = None THEN Err(RequiredPropertyMissing("Flags"))
        ELSE LET parsed == CharacteristicFlags_try_from(Unwrap(flag_strings))
             IN  IF ~parsed.ok THEN parsed
                 ELSE Ok(CharacteristicInfo(id,
                                            Unwrap(Uuid_parse_str(Unwrap(uuid_string))),
                                            parsed.value,
                                            mtu(characteristic_properties)))

FromProperties ==
    /\ call.op = "from_properties"
    /\ outcome.status = "pending"
    /\ outcome' = [status |-> "returned",
                   result |-> from_properties(call.id, call.properties)]
    /\ UNCHANGED <<message, pc, result, delivered, emitted, stream, call>>

InitInfo ==
    /\ message = None
    /\ pc = "idle"
    /\ result = <<>>
    /\ delivered = <<>>
    /\ emitted = <<>>
    /\ stream = <<>>
    /\ call \in {[op |-> "from_properties", id |-> CharacteristicId(p), properties |-> b] :
                    p \in {CharacteristicPath, DevicePath}, b \in InfoBags}
    /\ outcome = [status |-> "pending"]

NextInfo == FromProperties

SpecInfo == InitInfo /\ [][NextInfo]_vars

\* from_properties has returned.
InfoReturned == call.op = "from_properties" /\ outcome.status = "returned"

\* The bag holds a UUID string that parses, and a list of flag names.
HasValidUuid(bag) ==
    /\ HasKey(bag, "UUID")
    /\ Unwrap(MapGet(bag, "UUID")).type = "String"
    /\ IsSome(Uuid_parse_str(Unwrap(MapGet(bag, "UUID")).val))
HasFlagNames(bag) ==
    HasKey(bag, "Flags") /\ Unwrap(MapGet(bag, "Flags")).type = "Vec<String>"

\* C25: from_properties returns RequiredPropertyMissing("UUID") when the bag
\* lacks UUID, also when it lacks Flags as well, and
\* RequiredPropertyMissing("Flags") when it has a valid UUID but lacks Flags;
\* an unparsable UUID or an unrecognized flag is returned as an error; a bag
\* with a valid UUID and valid Flags succeeds with the given id, the parsed
\* UUID, the parsed flag set and mtu = None when MTU is absent; an error never
\* comes with a partial value.
C25_FromProperties ==
    InfoReturned =>
        LET bag == call.properties
            res == outcome.result
        IN  /\ ~HasKey(bag, "UUID") => res = Err(RequiredPropertyMissing("UUID"))
            /\ (HasValidUuid(bag) /\ ~HasKey(bag, "Flags"))
                 => res = Err(RequiredPropertyMissing("Flags"))
            /\ (HasKey(bag, "UUID") /\ MapGet(bag, "UUID") = Some(Str("not-a-uuid")))
                 => res = Err(UuidParseError)
            /\ (HasValidUuid(bag) /\ HasFlagNames(bag))
                 => LET names == Unwrap(MapGet(bag, "Flags")).val
                    IN  IF NamesIn(names) \subseteq RecognizedNames
                        THEN /\ res.ok
                             /\ res.value.id = call.id
                             /\ res.value.uuid = 287454020
                             /\ res.value.flags
                                  = SumOf({Unwrap(flag_of(n)) : n \in NamesIn(names)})
                             /\ ~HasKey(bag, "MTU") => res.value.mtu = None
                        ELSE res = Err(FlagParseError(FirstUnrecognized(names)))
            /\ ~res.ok => DOMAIN res = {"ok", "error"}

\* A bag lacking both UUID and Flags was reported as lacking UUID.
C25_Witness ==
    /\ InfoReturned
    /\ ~HasKey(call.properties, "UUID")
    /\ ~HasKey(call.properties, "Flags")
    /\ outcome.result = Err(RequiredPropertyMissing("UUID"))

----------------------------------------------------------------------------
(* mijia: decode_value (src/mijia/src/lib.rs).  A slice of bytes is a       *)
(* sequence of numbers 0..255.  The temperature, an f32 of degrees, is kept *)
(* as the i16 of hundredths of a degree it is computed from.               *)

\* The longest slice decoded.
MaxValueLen == 6

\* u16::from_le_bytes, i16::from_le_bytes
u16_from_le_bytes(lo, hi) == lo + 256 * hi
i16_from_le_bytes(lo, hi) ==
    IF lo + 256 * hi >= 32768 THEN lo + 256 * hi - 65536 ELSE lo + 256 * hi

\* a - b and a / b on u16
u16_sub(a, b) == (a - b + 65536) % 65536
u16_div(a, b) == a \div b

\* std::cmp::max
max(a, b) == IF a >= b THEN a ELSE b

Readings(temperature, humidity, battery_voltage, battery_percent) ==
    [temperature_hundredths |-> temperature,
     humidity |-> humidity,
     battery_voltage |-> battery_voltage,
     battery_percent |-> battery_percent]

\* Faulty variant of decode_value: the voltage is not clamped at 2100 before
\* the subtraction.
decode_value_unclamped(bytes) ==
    IF Len(bytes) # 5 THEN None
    ELSE LET temperature == i16_from_le_bytes(bytes[1], bytes[2])
             humidity == bytes[3]
             battery_voltage == u16_from_le_bytes(bytes[4], bytes[5])
             battery_percent == u16_div(u16_sub(battery_voltage, 2100), 10)
         IN  Some(Readings(temperature, humidity, battery_voltage, battery_percent))

\* decode_value(value: &[u8])
decode_value(bytes) ==
    IF Len(bytes) # 5 THEN None
    ELSE LET temperature == i16_from_le_bytes(bytes[1], bytes[2])
             humidity == bytes[3]
             battery_voltage == u16_from_le_bytes(bytes[4], bytes[5])
             battery_percent ==
                 u16_div(u16_sub(max(battery_voltage, 2100), 2100), 10)
         IN  Some(Readings(temperature, humidity, battery_voltage, battery_percent))

\* The slices decoded: 1, 2, 3, .. and every slice of the bytes 0 and 255, of
\* each length up to the bound; and slices of five bytes whose voltage lies
\* below, at and above 2100 (0x0834).
DecodeInputs ==
    {[i \in 1..n |-> i] : n \in 0..MaxValueLen}
    \cup UNION {SeqsOfLen({0, 255}, n) : n \in 0..MaxValueLen}
    \cup {t \o <<h, lo, hi>> :
            t \in {<<1, 2>>, <<255, 255>>, <<0, 128>>},
            h \in {0, 3, 255},
            lo \in {0, 4, 51, 52, 53, 62, 255},
            hi \in {0, 8, 10, 255}}

DecodeValue ==
    /\ call.op = "decode_value"
    /\ outcome.status = "pending"
    /\ outcome' = [status |-> "returned", result |-> decode_value(call.bytes)]
    /\ UNCHANGED <<message, pc, result, delivered, emitted, stream, call>>

InitDecode ==
    /\ message = None
    /\ pc = "idle"
    /\ result = <<>>
    /\ delivered = <<>>
    /\ emitted = <<>>
    /\ stream = <<>>
    /\ call \in {[op |-> "decode_value", bytes |-> b] : b \in DecodeInputs}
    /\ outcome = [status |-> "pending"]

NextDecode == DecodeValue

SpecDecode == InitDecode /\ [][NextDecode]_vars

Decoded == call.op = "decode_value" /\ outcome.status = "returned"

\* C26: decode_value returns None for every input whose length is not 5 and
\* Some for every input of length 5; then humidity is byte 2, battery_voltage
\* the little-endian 16-bit value of bytes 3 and 4, and battery_percent is
\* (max(battery_voltage, 2100) - 2100) / 10 in u16 arithmetic, which never
\* underflows and is 0 for every voltage at or below 2100.
C26_DecodeValue ==
    Decoded =>
        LET bytes == call.bytes
            res == outcome.result
        IN  /\ IsSome(res) <=> Len(bytes) = 5
            /\ IsSome(res) =>
                 LET r == Unwrap(res)
                 IN  /\ r.humidity = bytes[3]
                     /\ r.battery_voltage = bytes[4] + 256 * bytes[5]
                     /\ r.battery_percent
                          = (IF r.battery_voltage <= 2100 THEN 0
                             ELSE (r.battery_voltage - 2100) \div 10)
                     /\ r.battery_percent \in 0..6343

\* A reading with a voltage below 2100 mV was decoded to 0 percent.
C26_Witness ==
    /\ Decoded
    /\ call.bytes = <<1, 2, 3, 51, 8>>
    /\ outcome.result = Some(Readings(513, 3, 2099, 0))

----------------------------------------------------------------------------
\* C29: the decoder chooses the event variant from the interface name alone
\* and never checks the path against it: every identifier carried by an
\* emitted event is the object path named by the message (the signal's path
\* for PropertiesChanged, the object path of the payload and not the signal's
\* path for InterfacesAdded), so a device PropertiesChanged arriving at an
\* adapter-depth or characteristic-depth path yields Device events whose id
\* wraps that path unchanged.
C29_IdIsMessagePath ==
    /\ (HasReturned /\ IsPropertiesChanged(Msg)) =>
          \A i \in 1..Len(result) :
              /\ result[i].id = [object_path |-> Msg.path[1]]
              /\ result[i].kind =
                   (CASE Msg.body.interface_name = "org.bluez.Adapter1" -> "Adapter"
                      [] Msg.body.interface_name = "org.bluez.Device1" -> "Device"
                      [] Msg.body.interface_name = "org.bluez.GattCharacteristic1"
                            -> "Characteristic"
                      [] OTHER -> "none")
    /\ (HasReturned /\ IsInterfacesAdded(Msg)) =>
          \A i \in 1..Len(result) :
              /\ result[i].id = [object_path |-> Msg.body.object]
              /\ result[i].kind = "Device"

\* A device PropertiesChanged from a characteristic-depth path was decoded to
\* a Device event on that path.
C29_Witness ==
    /\ DecodedChangeOn("org.bluez.Device1")
    /\ Msg.path = <<CharacteristicPath>>
    /\ Len(result) >= 1
    /\ result[1].kind = "Device"
    /\ result[1].id = [object_path |-> CharacteristicPath]

----------------------------------------------------------------------------
(* publish-mqtt: the requests task (src/publish-mqtt/src/main.rs).  The    *)
(* task is sequential; each action below is one of its steps.  What it has *)
(* sent to the MQTT request channel, and the start of notifications, are   *)
(* kept in order in a log.  A topic is written relative to device_base.    *)

\* The largest number of connected sensors and of Bluetooth events handled.
MaxSensors == 2
MaxEvents == 2

\* A publish request: topic, payload, retained.
Publish(node, attribute, payload) ==
    [kind |-> "publish", node |-> node, attribute |-> attribute, payload |-> payload]
StartNotify == [kind |-> "start_notify"]

\* Faulty variant of publish_retained: a failed send is not reported.
publish_retained_unreported(log, request, accepted) ==
    IF accepted
    THEN [ok |-> TRUE, log |-> Append(log, request)]
    ELSE [ok |-> TRUE, log |-> log]

\* publish_retained: requests_tx.send(publish.into()).await; the send fails
\* when the channel is closed.
publish_retained(log, request, accepted) ==
    IF accepted
    THEN [ok |-> TRUE, log |-> Append(log, request)]
    ELSE [ok |-> FALSE, log |-> log]

\* The four publishes before the scan.
HeaderRequests ==
    <<Publish(None, "$homie", "4.0"),
      Publish(None, "$extensions", ""),
      Publish(None, "$name", "Mijia bridge"),
      Publish(None, "$state", "init")>>

\* The attributes published for a node after its $name, with their payloads
\* (the unit of the temperature is the degree sign followed by C).
NodeAttributes ==
    <<<<"$type", "Mijia sensor">>,
      <<"$properties", "temperature,humidity,battery">>,
      <<"temperature/$name", "Temperature">>,
      <<"temperature/$datatype", "float">>,
      <<"temperature/$unit", "degrees C">>,
      <<"humidity/$name", "Humidity">>,
      <<"humidity/$datatype", "integer">>,
      <<"humidity/$unit", "%">>,
      <<"battery/$name", "Battery level">>,
      <<"battery/$datatype", "integer">>,
      <<"battery/$unit", "%">>>>

\* mac_address.replace(":", "")
replace_colons(mac_address) == SelectSeq(mac_address, LAMBDA c : c # ":")

\* nodes.join(",")
RECURSIVE join(_)
join(nodes) ==
    IF nodes = <<>> THEN <<>>
    ELSE IF Len(nodes) = 1 THEN nodes[1]
    ELSE nodes[1] \o <<",">> \o join(Tail(nodes))

\* The requests of one node, in the order they are published.
NodeRequests(mac_address) ==
    <<Publish(Some(replace_colons(mac_address)), "$name", mac_address)>>
    \o [i \in 1..Len(NodeAttributes) |->
            Publish(Some(replace_colons(mac_address)),
                    NodeAttributes[i][1], NodeAttributes[i][2])]

\* The readings published for one decoded value.
ReadingRequests(mac_address) ==
    <<Publish(Some(replace_colons(mac_address)), "temperature", "reading"),
      Publish(Some(replace_colons(mac_address)), "humidity", "reading"),
      Publish(Some(replace_colons(mac_address)), "battery", "reading")>>

\* A connected sensor: its address, and whether get_address() succeeds.
MacAddresses == {<<"A", "4", ":", "C", "1">>, <<"A", "4", ":", "C", "2">>, <<"A", "4", ":", "C", "3">>}
Sensors == {[address |-> m, reachable |-> r] : m \in MacAddresses, r \in BOOLEAN}
SensorLists ==
    {q \in SeqsUpTo(Sensors, MaxSensors) :
        \A i, j \in 1..Len(q) : q[i].address = q[j].address => i = j}

\* What bt_session.incoming() yields: something that is no Value event, a
\* Value from another characteristic, a Value of the sensor characteristic
\* that decode_value accepts or rejects, and the address lookup failing.
IncomingEvents ==
    {[kind |-> "other"]}
    \cup {[kind |-> "value", sensor_characteristic |-> c, decodable |-> d,
           address |-> m, reachable |-> r] :
            c \in BOOLEAN, d \in BOOLEAN, m \in MacAddresses, r \in BOOLEAN}

Running(at) ==
    call.op = "requests" /\ outcome.status = "running" /\ outcome.at = at

\* The task returns the error of `?`.
Stopped == [outcome EXCEPT !.status = "stopped"]

\* Lines 131-139: one of the four publishes before the scan.
PublishHeader ==
    /\ Running("header")
    /\ \E accepted \in BOOLEAN :
         LET sent == publish_retained(outcome.log, HeaderRequests[outcome.index], accepted)
         IN  outcome' =
               IF ~sent.ok THEN [Stopped EXCEPT !.log = sent.log]
               ELSE IF outcome.index < Len(HeaderRequests)
               THEN [outcome EXCEPT !.log = sent.log, !.index = outcome.index + 1]
               ELSE [outcome EXCEPT !.log = sent.log, !.at = "scan", !.index = 1]
    /\ UNCHANGED <<message, pc, result, delivered, emitted, stream, call>>

\* Lines 141-147: the session is created, the adapter scans, the sensors are
\* connected; creating the session and scanning may fail.
ScanAndConnect ==
    /\ Running("scan")
    /\ \E ok \in BOOLEAN :
         outcome' =
           IF ~ok THEN Stopped
           ELSE IF call.connected_sensors = <<>>
           THEN [outcome EXCEPT !.at = "nodes"]
           ELSE [outcome EXCEPT !.at = "node", !.sensor = 1, !.index = 0]
    /\ UNCHANGED <<message, pc, result, delivered, emitted, stream, call>>

\* Lines 149-152: the address of the next sensor is read and its node id
\* pushed.
GetAddress ==
    /\ Running("node")
    /\ outcome.index = 0
    /\ LET sensor == call.connected_sensors[outcome.sensor]
       IN  outcome' =
             IF ~sensor.reachable THEN Stopped
             ELSE [outcome EXCEPT !.nodes = Append(outcome.nodes,
                                                   replace_colons(sensor.address)),
                                  !.index = 1]
    /\ UNCHANGED <<message, pc, result, delivered, emitted, stream, call>>

\* Lines 153-204: one of the twelve publishes of the sensor's node.
PublishNodeAttribute ==
    /\ Running("node")
    /\ outcome.index >= 1
    /\ \E accepted \in BOOLEAN :
         LET requests == NodeRequests(call.connected_sensors[outcome.sensor].address)
             sent == publish_retained(outcome.log, requests[outcome.index], accepted)
         IN  outcome' =
               IF ~sent.ok THEN [Stopped EXCEPT !.log = sent.log]
               ELSE IF outcome.index < Len(requests)
               THEN [outcome EXCEPT !.log = sent.log, !.index = outcome.index + 1]
               ELSE IF outcome.sensor < Len(call.connected_sensors)
               THEN [outcome EXCEPT !.log = sent.log,
                                    !.sensor = outcome.sensor + 1, !.index = 0]
               ELSE [outcome EXCEPT !.log = sent.log, !.at = "nodes"]
    /\ UNCHANGED <<message, pc, result, delivered, emitted, stream, call>>

\* Lines 206-211: $nodes.
PublishNodes ==
    /\ Running("nodes")
    /\ \E accepted \in BOOLEAN :
         LET sent == publish_retained(outcome.log,
                                      Publish(None, "$nodes", join(outcome.nodes)),
                                      accepted)
         IN  outcome' =
               IF ~sent.ok THEN [Stopped EXCEPT !.log = sent.log]
               ELSE [outcome EXCEPT !.log = sent.log, !.at = "ready"]
    /\ UNCHANGED <<message, pc, result, delivered, emitted, stream, call>>

\* Line 212: $state = ready.
PublishReady ==
    /\ Running("ready")
    /\ \E accepted \in BOOLEAN :
         LET sent == publish_retained(outcome.log, Publish(None, "$state", "ready"),
                                      accepted)
         IN  outcome' =
               IF ~sent.ok THEN [Stopped EXCEPT !.log = sent.log]
               ELSE [outcome EXCEPT !.log = sent.log, !.at = "notify"]
    /\ UNCHANGED <<message, pc, result, delivered, emitted, stream, call>>

\* Line 214: start_notify_sensors; its errors are printed, not returned.
StartNotifySensors ==
    /\ Running("notify")
    /\ outcome' = [outcome EXCEPT !.log = Append(outcome.log, StartNotify),
                                  !.at = "loop"]
    /\ UNCHANGED <<message, pc, result, delivered, emitted, stream, call>>

\* Lines 216-270: one incoming event is handled; a decodable value of the
\* sensor characteristic is published as three readings.
HandleEvent ==
    /\ Running("loop")
    /\ outcome.handled < MaxEvents
    /\ \E event \in IncomingEvents :
         IF event.kind = "value" /\ event.sensor_characteristic /\ event.decodable
         THEN IF ~event.reachable
              THEN outcome' = [Stopped EXCEPT !.handled = outcome.handled + 1]
              ELSE \E accepted \in 0..3 :
                     LET requests == ReadingRequests(event.address)
                     IN  outcome' =
                           [outcome EXCEPT
                              !.log = outcome.log \o SubSeq(requests, 1, accepted),
                              !.status = IF accepted < 3 THEN "stopped" ELSE "running",
                              !.handled = outcome.handled + 1]
         ELSE outcome' = [outcome EXCEPT !.handled = outcome.handled + 1]
    /\ UNCHANGED <<message, pc, result, delivered, emitted, stream, call>>

InitRequests ==
    /\ message = None
    /\ pc = "idle"
    /\ result = <<>>
    /\ delivered = <<>>
    /\ emitted = <<>>
    /\ stream = <<>>
    /\ call \in {[op |-> "requests", connected_sensors |-> q] : q \in SensorLists}
    /\ outcome = [status |-> "running", at |-> "header", index |-> 1, sensor |-> 0,
                  nodes |-> <<>>, log |-> <<>>, handled |-> 0]

NextRequests ==
    \/ PublishHeader
    \/ ScanAndConnect
    \/ GetAddress
    \/ PublishNodeAttribute
    \/ PublishNodes
    \/ PublishReady
    \/ StartNotifySensors
    \/ HandleEvent

SpecRequests == InitRequests /\ [][NextRequests]_vars

RequestsRunning == call.op = "requests"

\* Positions of the log holding a request of the given sort.
IsNodeAttribute(entry) ==
    entry.kind = "publish" /\ IsSome(entry.node)
        /\ entry.attribute \notin {"temperature", "humidity", "battery"}
IsReading(entry) ==
    entry.kind = "publish" /\ IsSome(entry.node)
        /\ entry.attribute \in {"temperature", "humidity", "battery"}
IsDeviceState(entry, payload) ==
    entry.kind = "publish" /\ entry.node = None
        /\ entry.attribute = "$state" /\ entry.payload = payload
IsNodes(entry) ==
    entry.kind = "publish" /\ entry.node = None /\ entry.attribute = "$nodes"

\* The order of the log: init before any node attribute; every attribute of
\* every connected sensor's node before $nodes and none after it; $nodes
\* before ready; notifications and readings only after ready.
PublishOrder(log, connected_sensors) ==
    /\ \A i \in 1..Len(log) :
         IsNodeAttribute(log[i]) =>
             \E j \in 1..(i - 1) : IsDeviceState(log[j], "init")
    /\ \A j \in 1..Len(log) :
         IsNodes(log[j]) =>
             /\ \A k \in 1..Len(connected_sensors) :
                  \A n \in 1..Len(NodeRequests(connected_sensors[k].address)) :
                     \E i \in 1..(j - 1) :
                        log[i] = NodeRequests(connected_sensors[k].address)[n]
             /\ \A i \in (j + 1)..Len(log) : ~IsNodeAttribute(log[i])
    /\ \A k \in 1..Len(log) :
         IsDeviceState(log[k], "ready") =>
             /\ \E j \in 1..(k - 1) : IsNodes(log[j])
             /\ \E j \in 1..(k - 1) : IsDeviceState(log[j], "init")
    /\ \A i \in 1..Len(log) :
         (log[i] = StartNotify \/ IsReading(log[i])) =>
             \E k \in 1..(i - 1) : IsDeviceState(log[k], "ready")

\* The task is at a publish_retained(..).await? of its set-up.
AtPublish ==
    \/ outcome.at \in {"header", "nodes", "ready"}
    \/ outcome.at = "node" /\ outcome.index >= 1

\* C30: the requests task publishes $state = init before any node
\* attribute, all attributes of every connected sensor's node before $nodes,
\* $nodes before $state = ready, and starts notifications and publishes
\* readings only after ready; once a publish has failed the task has stopped
\* and takes no later step, so ready never follows a failed publish.
C30_PublishOrder ==
    /\ [](RequestsRunning => PublishOrder(outcome.log, call.connected_sensors))
    /\ [][(RequestsRunning /\ outcome.status = "stopped") => outcome' = outcome]_vars
    /\ [][(RequestsRunning /\ AtPublish /\ outcome'.log = outcome.log)
            => outcome'.status = "stopped"]_vars

\* Two sensors are connected and a reading has been published after ready.
C30_Witness ==
    /\ RequestsRunning
    /\ Len(call.connected_sensors) = 2
    /\ outcome.status = "running"
    /\ \E i \in 1..Len(outcome.log) : IsReading(outcome.log[i])

====
